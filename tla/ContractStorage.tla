-------------------------- MODULE ContractStorage --------------------------
(***************************************************************************)
(* Contract storage as the OS sees it                                      *)
(* (crates/starknet-os/src/starknet/starknet_storage.rs, the storage hints *)
(* of hints/execution.rs, read/write_storage_for_address of                *)
(* execution/helper.rs; crates/bin/prove_block/src/reexecute.rs for the    *)
(* storage backed by RPC).                                                 *)
(*                                                                         *)
(* Three orders of events meet here.  The block was executed before:       *)
(* `actual` is the storage that execution saw, and it advances in program  *)
(* order.  The OS runs the code of a call to its end first (`code`,        *)
(* `issued`): syscalls are answered on the spot, from the recording or, for *)
(* get_block_hash only, from the storage itself.  Then it works off the    *)
(* syscalls one by one (`todo`), running the code of a called contract     *)
(* when it meets the call: that is program order again, and here storage   *)
(* is read and written by the hints.                                       *)
(*                                                                         *)
(* A tree is the map of its leaves; its root, an injective hash of the     *)
(* tree, is that map too.                                                  *)
(***************************************************************************)
EXTENDS Naturals, Sequences

CONSTANTS
    Address,            \* contract addresses
    Tracked,            \* the keys of ExecutionHelper.storage_by_address
    BlockHashContract,  \* BLOCK_HASH_CONTRACT_ADDRESS
    Key, Value, Zero,
    OldBlock, OldHash,  \* the old block whose hash the block stores
    PreviousTrees,      \* the storages a block may start from
    RpcBacked,          \* ProverPerContractStorage, not OsSingleStarknetStorage
    MaxSyscalls,        \* bound: syscalls in the block
    None

ASSUME StorageAssumption ==
    /\ Tracked \subseteq Address
    /\ BlockHashContract \in Address
    /\ Zero \in Value /\ OldBlock \in Key /\ OldHash \in Value
    /\ \A p \in PreviousTrees : /\ p \in [Address -> [Key -> Value]]
                                /\ p[BlockHashContract][OldBlock] = Zero
    /\ RpcBacked \in BOOLEAN
    /\ MaxSyscalls \in Nat
    /\ None \notin Value /\ None \notin Address

\* Contracts that have code: nothing is deployed at BLOCK_HASH_CONTRACT_ADDRESS.
Contract == Address \ {BlockHashContract}

ReadOp      == [name : {"read"}, contract : Contract, key : Key]
WriteOp     == [name : {"write"}, contract : Contract, key : Key, value : Value]
CallOp      == [name : {"call"}, contract : Contract]
BlockHashOp == [name : {"block_hash"}, key : Key, value : Value]
Op == ReadOp \cup WriteOp \cup CallOp \cup BlockHashOp

VARIABLES
    previous,                 \* leaves of previous_tree
    ongoing_storage_changes,  \* the HashMap of each PerContractStorage
    actual,                   \* storage of the recorded execution
    code,                     \* the contract whose code runs, or None
    issued,                   \* the syscalls it made so far
    todo,                     \* syscalls the OS has still to execute
    used,                     \* number of syscalls made in the block
    answer,                   \* the last storage hint and its ids.(prev_)value
    squashed,                 \* the OS's storage dicts: first and last value
    commitments,              \* Result of compute_storage_commitments
    phase,                    \* "start", "transactions" or "end"
    status                    \* "running", or how the run ended

osVars == <<code, issued, todo, used>>
vars == <<previous, ongoing_storage_changes, actual, osVars, answer, squashed,
          commitments, phase, status>>

Statuses == {"running", "untracked", "panicked", "inconsistent",
             "dict_inconsistent", "root_mismatch", "committed"}

-----------------------------------------------------------------------------
(***************************************************************************)
(* PerContractStorage                                                      *)
(***************************************************************************)
Cached(a, k) == k \in DOMAIN ongoing_storage_changes[a]

\* Mutant: a key that has no leaf has no value.
MutantFetch(a, k) == IF previous[a][k] = Zero THEN None ELSE previous[a][k]

\* fetch_storage_leaf, get_storage_at: a leaf never written is empty (zero).
Fetch(a, k) == previous[a][k]

\* Mutant: every read asks the tree of the previous block.
MutantLookup(a, k) == Fetch(a, k)

\* The value `read` returns.
Lookup(a, k) == IF Cached(a, k) THEN ongoing_storage_changes[a][k]
                ELSE Fetch(a, k)

\* Mutant: like HashMap::entry(k).or_insert(v), a known key is left alone.
MutantInsert(a, k, v) ==
    [ongoing_storage_changes EXCEPT ![a] =
        [x \in DOMAIN ongoing_storage_changes[a] \cup {k} |->
            IF Cached(a, x) THEN ongoing_storage_changes[a][x] ELSE v]]

\* ongoing_storage_changes.insert(k, v)
Insert(a, k, v) ==
    [ongoing_storage_changes EXCEPT ![a] =
        [x \in DOMAIN ongoing_storage_changes[a] \cup {k} |->
            IF x = k THEN v ELSE ongoing_storage_changes[a][x]]]

\* Mutant: only what was written is remembered, reads leave no trace.
MutantRemember(a, k, v) == ongoing_storage_changes

\* The insertion `read` makes after it fetched a value.
Remember(a, k, v) == Insert(a, k, v)

\* Leaves of the tree the final modifications lead to.
UpdatedTree(a) == [k \in Key |-> Lookup(a, k)]

\* Whether get_storage_at answers; the local tree always does.
RpcAnswers == IF RpcBacked THEN BOOLEAN ELSE {TRUE}

Abort(how) ==
    /\ status' = how
    /\ UNCHANGED <<previous, ongoing_storage_changes, actual, osVars, answer,
                   squashed, commitments, phase>>

Answers == [hint : {"read", "write"}, contract : Tracked, key : Key,
            value : Value, new : Value]
Answer(hint, a, k, val, new) == [hint |-> hint, contract |-> a, key |-> k,
                                 value |-> val, new |-> new]

\* read_storage_for_address, then the rest of the hint.  An address without
\* storage is an error; a remote read that fails panics.
CanRead(a, k, up) == a \in Tracked /\ (Cached(a, k) \/ up)
ReadFailure(a) == IF a \in Tracked THEN "panicked" ELSE "untracked"

(***************************************************************************)
(* dict_update of the OS program: squashing the dict of a contract fails   *)
(* unless each access starts from the value the previous one left.         *)
(***************************************************************************)
InDict(a, k) == k \in DOMAIN squashed[a]

DictUpdate(a, k, prev, new) ==
    IF InDict(a, k) /\ squashed[a][k].last # prev
    THEN /\ status' = "dict_inconsistent"
         /\ UNCHANGED squashed
    ELSE /\ squashed' = [squashed EXCEPT ![a] =
                [x \in DOMAIN squashed[a] \cup {k} |->
                    IF x # k THEN squashed[a][x]
                    ELSE [first |-> IF InDict(a, k) THEN squashed[a][k].first
                                    ELSE prev,
                          last  |-> new]]]
         /\ UNCHANGED status

-----------------------------------------------------------------------------
(***************************************************************************)
(* Start of the block                                                      *)
(***************************************************************************)
Empty == [k \in {} |-> Zero]

\* OsSingleStarknetStorage::new fetches the leaves of the keys it is told to
\* expect; ProverPerContractStorage::new fetches nothing.
Init ==
    /\ previous \in PreviousTrees
    /\ \E accessed \in [Tracked -> IF RpcBacked THEN {{}} ELSE SUBSET Key] :
          ongoing_storage_changes =
              [a \in Tracked |-> [k \in accessed[a] |-> previous[a][k]]]
    /\ actual = previous
    /\ code = None /\ issued = <<>> /\ todo = <<>> /\ used = 0
    /\ answer = None
    /\ squashed = [a \in Address |-> Empty]
    /\ commitments = Empty
    /\ phase = "start"
    /\ status = "running"

Running(p) == status = "running" /\ phase = p

\* write_old_block_to_storage, and the dict_update next to it whose previous
\* value is the constant 0.
WriteOldBlock ==
    /\ Running("start")
    /\ IF BlockHashContract \notin Tracked THEN Abort("untracked")
       ELSE /\ ongoing_storage_changes' =
                  Insert(BlockHashContract, OldBlock, OldHash)
            /\ actual' = [actual EXCEPT ![BlockHashContract][OldBlock] = OldHash]
            /\ DictUpdate(BlockHashContract, OldBlock, Zero, OldHash)
            /\ phase' = "transactions"
            /\ UNCHANGED <<previous, osVars, answer, commitments>>

\* The first blocks of a chain have no old block.
NoOldBlock ==
    /\ Running("start")
    /\ phase' = "transactions"
    /\ UNCHANGED <<previous, ongoing_storage_changes, actual, osVars, answer,
                   squashed, commitments, status>>

-----------------------------------------------------------------------------
(***************************************************************************)
(* The code of a call runs                                                 *)
(***************************************************************************)
StartCall(a) ==
    /\ Running("transactions") /\ code = None /\ todo = <<>>
    /\ used < MaxSyscalls
    /\ code' = a
    /\ UNCHANGED <<previous, ongoing_storage_changes, actual, issued, todo,
                   used, answer, squashed, commitments, phase, status>>

Issue(op) ==
    /\ Running("transactions") /\ code # None /\ used < MaxSyscalls
    /\ issued' = Append(issued, op)
    /\ used' = used + 1
    /\ UNCHANGED <<previous, actual, code, todo, answer, squashed, commitments,
                   phase, status>>

\* storage_read, storage_write and calls are answered from the recording.
IssueRead(k) ==
    /\ Issue([name |-> "read", contract |-> code, key |-> k])
    /\ UNCHANGED ongoing_storage_changes

IssueWrite(k, v) ==
    /\ Issue([name |-> "write", contract |-> code, key |-> k, value |-> v])
    /\ UNCHANGED ongoing_storage_changes

IssueCall(a) ==
    /\ Issue([name |-> "call", contract |-> a])
    /\ UNCHANGED ongoing_storage_changes

\* GetBlockHashHandler: read_storage_for_address while the code still runs.
IssueBlockHash(k) ==
    /\ Running("transactions") /\ code # None /\ used < MaxSyscalls
    /\ \E up \in RpcAnswers :
          IF CanRead(BlockHashContract, k, up)
          THEN LET block_hash == Lookup(BlockHashContract, k)
               IN /\ Issue([name |-> "block_hash", key |-> k,
                            value |-> block_hash])
                  /\ ongoing_storage_changes' =
                        Remember(BlockHashContract, k, block_hash)
          ELSE Abort(ReadFailure(BlockHashContract))

\* The code returns and the OS turns to its syscalls.
EndCode ==
    /\ Running("transactions") /\ code # None
    /\ todo' = issued \o todo
    /\ issued' = <<>>
    /\ code' = None
    /\ UNCHANGED <<previous, ongoing_storage_changes, actual, used, answer,
                   squashed, commitments, phase, status>>

-----------------------------------------------------------------------------
(***************************************************************************)
(* The OS executes the syscalls                                            *)
(***************************************************************************)
NextOp(name) ==
    /\ Running("transactions") /\ code = None /\ todo # <<>>
    /\ Head(todo).name = name

OpDone == /\ todo' = Tail(todo)
          /\ UNCHANGED <<previous, code, issued, used, commitments, phase>>

\* cache_contract_storage: the recorded value, the one execution read at this
\* point of the program, must be the one in storage.
ExecuteRead ==
    /\ NextOp("read")
    /\ LET a == Head(todo).contract
           k == Head(todo).key
       IN \E up \in RpcAnswers :
            IF ~CanRead(a, k, up) THEN Abort(ReadFailure(a))
            ELSE IF Lookup(a, k) # actual[a][k] THEN Abort("inconsistent")
            ELSE /\ ongoing_storage_changes' = Remember(a, k, Lookup(a, k))
                 /\ answer' = Answer("read", a, k, Lookup(a, k), Lookup(a, k))
                 /\ DictUpdate(a, k, Lookup(a, k), Lookup(a, k))
                 /\ UNCHANGED actual
                 /\ OpDone

\* Mutant: the new value is written first.
MutantPrevValue(a, k, v) == v

\* ids.prev_value of a write of v.
PrevValue(a, k, v) == Lookup(a, k)

\* write_syscall_result and its deprecated twin: the previous value is read,
\* then the new one written.
ExecuteWrite ==
    /\ NextOp("write")
    /\ LET a == Head(todo).contract
           k == Head(todo).key
           v == Head(todo).value
       IN \E up \in RpcAnswers :
            IF ~CanRead(a, k, up) THEN Abort(ReadFailure(a))
            ELSE /\ ongoing_storage_changes' = Insert(a, k, v)
                 /\ answer' = Answer("write", a, k, PrevValue(a, k, v), v)
                 /\ DictUpdate(a, k, PrevValue(a, k, v), v)
                 /\ actual' = [actual EXCEPT ![a][k] = v]
                 /\ OpDone

\* A call (or library call): the callee's code runs next.
ExecuteCall ==
    /\ NextOp("call")
    /\ code' = Head(todo).contract
    /\ todo' = Tail(todo)
    /\ UNCHANGED <<previous, ongoing_storage_changes, actual, issued, used,
                   answer, squashed, commitments, phase, status>>

\* execute_get_block_hash enters the answer the code got into the dict.
ExecuteBlockHash ==
    /\ NextOp("block_hash")
    /\ DictUpdate(BlockHashContract, Head(todo).key, Head(todo).value,
                  Head(todo).value)
    /\ OpDone
    /\ UNCHANGED <<ongoing_storage_changes, actual, answer>>

-----------------------------------------------------------------------------
(***************************************************************************)
(* compute_storage_commitments, once the transactions are done.  `roots`   *)
(* are the roots of the updated trees, given to the storages when they     *)
(* were created and used only here.  OsSingleStarknetStorage compares them *)
(* with its own and the first mismatch fails the whole computation;        *)
(* ProverPerContractStorage hands over the root of the RPC proof.          *)
(***************************************************************************)
RootMatches(a, root) == RpcBacked \/ UpdatedTree(a) = root

compute_storage_commitments(roots) ==
    /\ Running("transactions") /\ code = None /\ todo = <<>>
    /\ phase' = "end"
    /\ IF \A a \in Tracked : RootMatches(a, roots[a])
       THEN /\ commitments' = [a \in Tracked |->
                  [updated_root |-> roots[a],
                   modified |-> DOMAIN ongoing_storage_changes[a]]]
            /\ status' = "committed"
       ELSE \E a \in Tracked :
               /\ ~RootMatches(a, roots[a])
               /\ commitments' = [contract |-> a,
                                  actual_root |-> UpdatedTree(a),
                                  expected_root |-> roots[a]]
               /\ status' = "root_mismatch"
    /\ UNCHANGED <<previous, ongoing_storage_changes, actual, osVars, answer,
                   squashed>>

Next ==
    \/ WriteOldBlock \/ NoOldBlock
    \/ \E a \in Contract : StartCall(a) \/ IssueCall(a)
    \/ \E k \in Key : \/ IssueRead(k) \/ IssueBlockHash(k)
                      \/ \E v \in Value : IssueWrite(k, v)
    \/ EndCode
    \/ ExecuteRead \/ ExecuteWrite \/ ExecuteCall \/ ExecuteBlockHash
    \/ \E roots \in [Tracked -> [Key -> Value]] :
          compute_storage_commitments(roots)

Spec == Init /\ [][Next]_vars

-----------------------------------------------------------------------------
PartialMaps(S) == UNION {[d -> S] : d \in SUBSET Key}

\* The values of the variables.
TypeOK ==
    /\ previous \in [Address -> [Key -> Value]]
    /\ DOMAIN ongoing_storage_changes = Tracked
    /\ \A a \in Tracked : ongoing_storage_changes[a] \in PartialMaps(Value)
    /\ actual \in [Address -> [Key -> Value]]
    /\ code \in Contract \cup {None}
    /\ issued \in Seq(Op)
    /\ todo \in Seq(Op)
    /\ used \in 0 .. MaxSyscalls
    /\ answer \in Answers \cup {None}
    /\ DOMAIN squashed = Address
    /\ \A a \in Address :
          squashed[a] \in PartialMaps([first : Value, last : Value])
    /\ phase \in {"start", "transactions", "end"}
    /\ status \in Statuses

(***************************************************************************)
(* The hints never contradict the execution they replay: no recorded read  *)
(* differs from what the storage holds when the OS comes to it             *)
(* (cache_contract_storage, "Inconsistent storage value"), and every       *)
(* prev_value, recorded block hash and constant 0 the OS puts in a storage *)
(* dict continues the dict's chain.                                        *)
(***************************************************************************)
HintsAgreeWithExecution == status \notin {"inconsistent", "dict_inconsistent"}

(***************************************************************************)
(* The squashed storage dict of a contract is its exact state diff, from   *)
(* the tree of the previous block to the storage the execution ended in,   *)
(* although keys are prefetched, cached or fetched late.                   *)
(***************************************************************************)
DictsAreTheStateDiff ==
    \A a \in Address, k \in Key :
        IF InDict(a, k)
        THEN /\ squashed[a][k].first = previous[a][k]
             /\ squashed[a][k].last = actual[a][k]
        ELSE actual[a][k] = previous[a][k]

(***************************************************************************)
(* get_block_hash answers outside program order, which the comment in      *)
(* GetBlockHashHandler allows because the block hash contract is only      *)
(* written at the start of the block: the answer is still the value the    *)
(* contract holds whenever the OS comes to execute the syscall.            *)
(***************************************************************************)
BlockHashAnswersStayValid ==
    \A ops \in {issued, todo} : \A i \in DOMAIN ops :
        ops[i].name = "block_hash" =>
            ops[i].value = actual[BlockHashContract][ops[i].key]

(***************************************************************************)
(* A commitment OsSingleStarknetStorage returns is to the final storage of *)
(* the execution, and the facts collected for it cover every key of the    *)
(* dict the OS is going to apply to the tree.  UpdatedRootMismatch is only *)
(* raised against a root that is not the root of that final storage.       *)
(***************************************************************************)
CommitmentsMatchExecution ==
    /\ status = "committed" =>
          \A a \in Tracked :
              /\ ~RpcBacked => commitments[a].updated_root = actual[a]
              /\ DOMAIN squashed[a] \subseteq commitments[a].modified
    /\ status = "root_mismatch" =>
          LET a == commitments.contract
          IN a \in Tracked /\ actual[a] # commitments.expected_root

(***************************************************************************)
(* Behind its caches the storage is a plain map per contract.              *)
(***************************************************************************)
Store == [a \in Tracked |-> [k \in Key |-> Lookup(a, k)]]

Map == INSTANCE StorageMap WITH Contract <- Tracked, store <- Store

ImplementsMap == Map!Spec
=============================================================================
