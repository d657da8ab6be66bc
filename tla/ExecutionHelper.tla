-------------------------- MODULE ExecutionHelper --------------------------
(***************************************************************************)
(* The execution helper of the Starknet OS runner                          *)
(* (crates/starknet-os/src/execution/helper.rs).                           *)
(*                                                                         *)
(* blockifier has already executed the block; the helper feeds what it     *)
(* recorded (one TransactionExecutionInfo per transaction, each a tree of  *)
(* CallInfo) back to the OS through iterators.  A Rust `IntoIter` is the   *)
(* sequence of the items it still holds, `next()` takes its head.  An      *)
(* `assert!`, `unwrap` or `expect` that fails panics: the run is lost, so  *)
(* `status` becomes "panicked" and no other variable matters any more.     *)
(***************************************************************************)
EXTENDS Naturals, Sequences

CONSTANTS
    CallInfo,        \* the recorded calls (a set closed under inner_calls)
    Transactions,    \* the recorded transactions
    Address,         \* contract addresses
    Value,           \* felts: storage values and (abstracted) retdata
    Ptr,             \* VM pointers
    None             \* Option::None

EntryPointType == {"Constructor", "External", "L1Handler"}

(***************************************************************************)
(* What the helper reads of a CallInfo and of a TransactionExecutionInfo.  *)
(* `deprecated` and `no_entry_point` are not recorded by blockifier: they  *)
(* are properties of the called class that decide which hints the OS runs. *)
(***************************************************************************)
ASSUME CallInfoAssumption ==
    \A c \in CallInfo :
        /\ c.entry_point_type \in EntryPointType
        /\ c.storage_address \in Address
        /\ c.failed \in BOOLEAN
        /\ c.retdata \in Value
        /\ c.storage_read_values \in Seq(Value)
        /\ c.inner_calls \in Seq(CallInfo)
        /\ c.deprecated \in BOOLEAN
        /\ c.no_entry_point \in BOOLEAN

ASSUME TransactionAssumption ==
    \A tx \in Transactions :
        /\ tx.validate_call_info \in CallInfo \cup {None}
        /\ tx.execute_call_info \in CallInfo \cup {None}
        /\ tx.fee_transfer_call_info \in CallInfo \cup {None}
        /\ tx.is_reverted \in BOOLEAN

ASSUME NoneAssumption ==
    /\ None \notin CallInfo /\ None \notin Transactions
    /\ None \notin Ptr /\ None \notin Address

VARIABLES
    tx_execution_info_iter,   \* transactions not started yet
    tx_execution_info,        \* the transaction being executed, or None
    tx_info_ptr,              \* its deprecated TxInfo, or None
    call_iter,                \* calls of the transaction not entered yet
    call_info,                \* the call being executed, or None
    call_execution_info_ptr,  \* its ExecutionInfo, or None
    result_iter,              \* results of its inner calls not replayed yet
    deployed_contracts_iter,  \* addresses it deploys, not replayed yet
    execute_code_read_iter,   \* values it reads, not replayed yet
    status                    \* "running", "panicked" or "hint_error"

txVars == <<tx_execution_info_iter, tx_execution_info, tx_info_ptr>>
codeIters == <<result_iter, deployed_contracts_iter, execute_code_read_iter>>
callVars == <<call_iter, call_info, call_execution_info_ptr, codeIters>>
helperVars == <<txVars, callVars, status>>

-----------------------------------------------------------------------------
(***************************************************************************)
(* Pre-order list of the calls of each call tree of a list, one tree after *)
(* the other: a call, then the trees of its inner calls.                   *)
(***************************************************************************)
preorder[calls \in Seq(CallInfo)] ==
    IF calls = <<>> THEN <<>>
    ELSE <<Head(calls)>> \o preorder[Head(calls).inner_calls]
                         \o preorder[Tail(calls)]

\* Mutant: breadth first, the siblings of a call before its inner calls.
MutantTopology(calls) ==
    LET levels[s \in Seq(CallInfo)] ==
            IF s = <<>> THEN <<>>
            ELSE <<Head(s)>> \o levels[Tail(s) \o Head(s).inner_calls]
    IN levels[calls]

gen_call_topology(calls) == preorder[calls]

\* The call infos among options.
Present(options) == SelectSeq(options, LAMBDA c : c # None)

\* Mutant: the validate call first, whatever the transaction.
MutantTopLevelCalls(tx) ==
    Present(<<tx.validate_call_info, tx.execute_call_info,
              tx.fee_transfer_call_info>>)

\* A DEPLOY_ACCOUNT transaction runs its constructor before __validate_deploy__.
TopLevelCalls(tx) ==
    LET is_deploy == /\ tx.execute_call_info # None
                     /\ tx.execute_call_info.entry_point_type = "Constructor"
    IN Present(IF is_deploy
               THEN <<tx.execute_call_info, tx.validate_call_info,
                      tx.fee_transfer_call_info>>
               ELSE <<tx.validate_call_info, tx.execute_call_info,
                      tx.fee_transfer_call_info>>)

gen_call_iterator(tx) == gen_call_topology(TopLevelCalls(tx))

IsConstructor(c) == c.entry_point_type = "Constructor"

\* Addresses of the constructor calls of a list, in order.
ConstructorAddresses(calls) ==
    LET constructors == SelectSeq(calls, IsConstructor)
    IN [i \in DOMAIN constructors |-> constructors[i].storage_address]

CallResult(c) == [failed |-> c.failed, retdata |-> c.retdata]
CallResults == [failed : BOOLEAN, retdata : Value]

\* Mutant: every inner call is taken for a deployment.
MutantDeployed(c) ==
    [i \in DOMAIN c.inner_calls |-> c.inner_calls[i].storage_address]

\* What enter_call unpacks of a call: the contracts it deploys, the results
\* of its inner calls, the values it reads.
DeployedContracts(c) == ConstructorAddresses(c.inner_calls)

\* Mutant: the failure flag is not carried over.
MutantInnerResults(c) ==
    [i \in DOMAIN c.inner_calls |-> [retdata |-> c.inner_calls[i].retdata]]

Results(calls) == [i \in DOMAIN calls |-> CallResult(calls[i])]
InnerResults(c) == Results(c.inner_calls)

\* Mutant: the values in reverse order.
MutantReads(c) ==
    [i \in DOMAIN c.storage_read_values |->
        c.storage_read_values[Len(c.storage_read_values) + 1 - i]]

StorageReadValues(c) == c.storage_read_values

(***************************************************************************)
(* The lists of calls that matter in a block: the top-level calls of its   *)
(* transactions, the inner calls of its calls, and what is left of these   *)
(* while they are worked off.  The two assumptions spell out, for these    *)
(* lists, the equations by which preorder and ConstructorAddresses are     *)
(* computed; they hold because call trees are finite.                      *)
(***************************************************************************)
Suffixes(s) == {SubSeq(s, i, Len(s)) : i \in 1 .. (Len(s) + 1)}

WholeLists == {c.inner_calls : c \in CallInfo}
         \cup {TopLevelCalls(tx) : tx \in Transactions}

CallLists == {<<>>} \cup UNION {Suffixes(s) : s \in WholeLists}

ASSUME TopologyUnfolds ==
    \A calls \in CallLists :
        /\ preorder[calls] \in Seq(CallInfo)
        /\ preorder[calls] =
              IF calls = <<>> THEN <<>>
              ELSE <<Head(calls)>> \o preorder[Head(calls).inner_calls]
                                   \o preorder[Tail(calls)]

ASSUME DeployedUnfolds ==
    \A calls \in CallLists :
        /\ ConstructorAddresses(calls) \in Seq(Address)
        /\ ConstructorAddresses(calls) =
              IF calls = <<>> THEN <<>>
              ELSE (IF IsConstructor(Head(calls))
                    THEN <<Head(calls).storage_address>> ELSE <<>>)
                   \o ConstructorAddresses(Tail(calls))

ASSUME TopLevelCallsAssumption ==
    \A tx \in Transactions : TopLevelCalls(tx) \in Seq(CallInfo)

-----------------------------------------------------------------------------

\* A failed assertion or hint: the run ends here.
Abort(how) ==
    /\ status' = how
    /\ UNCHANGED <<txVars, callVars>>

IteratorsExhausted ==
    /\ deployed_contracts_iter = <<>>
    /\ result_iter = <<>>
    /\ execute_code_read_iter = <<>>

new(transactions) ==
    /\ tx_execution_info_iter = transactions
    /\ tx_execution_info = None
    /\ tx_info_ptr = None
    /\ call_iter = <<>>
    /\ call_info = None
    /\ call_execution_info_ptr = None
    /\ result_iter = <<>>
    /\ deployed_contracts_iter = <<>>
    /\ execute_code_read_iter = <<>>
    /\ status = "running"

start_tx(ptr) ==
    IF /\ tx_info_ptr = None
       /\ tx_execution_info = None
       /\ tx_execution_info_iter # <<>>
    THEN /\ tx_info_ptr' = ptr
         /\ tx_execution_info' = Head(tx_execution_info_iter)
         /\ tx_execution_info_iter' = Tail(tx_execution_info_iter)
         /\ call_iter' = gen_call_iterator(Head(tx_execution_info_iter))
         /\ UNCHANGED <<call_info, call_execution_info_ptr, codeIters, status>>
    ELSE Abort("panicked")

end_tx ==
    IF /\ call_iter = <<>>
       /\ tx_execution_info # None
    THEN /\ tx_info_ptr' = None
         /\ tx_execution_info' = None
         /\ UNCHANGED <<tx_execution_info_iter, callVars, status>>
    ELSE Abort("panicked")

\* start_tx(None) and end_tx one after the other.
skip_tx ==
    IF /\ tx_info_ptr = None
       /\ tx_execution_info = None
       /\ tx_execution_info_iter # <<>>
       /\ gen_call_iterator(Head(tx_execution_info_iter)) = <<>>
    THEN /\ tx_execution_info_iter' = Tail(tx_execution_info_iter)
         /\ call_iter' = <<>>
         /\ UNCHANGED <<tx_execution_info, tx_info_ptr, call_info,
                        call_execution_info_ptr, codeIters, status>>
    ELSE Abort("panicked")

enter_call(ptr) ==
    IF /\ call_execution_info_ptr = None
       /\ IteratorsExhausted
       /\ call_info = None
       /\ call_iter # <<>>
    THEN LET call == Head(call_iter) IN
         /\ call_execution_info_ptr' = ptr
         /\ call_iter' = Tail(call_iter)
         /\ deployed_contracts_iter' = DeployedContracts(call)
         /\ result_iter' = InnerResults(call)
         /\ execute_code_read_iter' = StorageReadValues(call)
         /\ call_info' = call
         /\ UNCHANGED <<txVars, status>>
    ELSE Abort("panicked")

exit_call ==
    IF /\ IteratorsExhausted
       /\ call_info # None
    THEN /\ call_execution_info_ptr' = None
         /\ call_info' = None
         /\ UNCHANGED <<txVars, call_iter, codeIters, status>>
    ELSE Abort("panicked")

\* enter_call(None) and exit_call one after the other: the call recorded no
\* inner call and no read, or the second half panics.
skip_call ==
    IF /\ call_execution_info_ptr = None
       /\ IteratorsExhausted
       /\ call_info = None
       /\ call_iter # <<>>
       /\ DeployedContracts(Head(call_iter)) = <<>>
       /\ InnerResults(Head(call_iter)) = <<>>
       /\ StorageReadValues(Head(call_iter)) = <<>>
    THEN /\ call_iter' = Tail(call_iter)
         /\ UNCHANGED <<txVars, call_info, call_execution_info_ptr, codeIters,
                        status>>
    ELSE Abort("panicked")

=============================================================================
