------------------------------- MODULE Replay -------------------------------
(***************************************************************************)
(* The Starknet OS replaying a recorded block against the execution        *)
(* helper.                                                                 *)
(*                                                                         *)
(* The helper's operations come from ExecutionHelper; here are the two     *)
(* syscall handlers (execution/syscall_handler.rs and                      *)
(* execution/deprecated_syscall_handler.rs), which drain its iterators     *)
(* while contract code runs, and the OS program that drives everything     *)
(* through hints.  The OS program (Cairo) is external.  Its control flow   *)
(* is a recursion: it enters a call, runs the call's code to the end, exits *)
(* the call, and then executes the inner calls the code asked for, in      *)
(* order.  `os_frames` is the stack of that recursion (each frame the calls *)
(* still to execute, the outermost frame the top-level calls of the        *)
(* transaction).                                                           *)
(***************************************************************************)
EXTENDS ExecutionHelper

CONSTANT Blocks           \* the recorded blocks, sequences of transactions

VARIABLES
    os_txs,       \* transactions the OS has not started
    os_frames,    \* stack of lists of calls to execute, innermost last
    os_call,      \* the call whose code is running, or None
    os_pending,   \* inner calls this code has still to ask for
    os_reads,     \* reads this code has still to make
    response      \* the last syscall's response beside the recorded one

osVars == <<os_txs, os_frames, os_call, os_pending, os_reads, response>>
vars == <<helperVars, osVars>>

ASSUME BlocksAssumption == Blocks \subseteq Seq(Transactions)

(***************************************************************************)
(* The top-level calls in the order in which the OS executes them, by the  *)
(* kind of the transaction (hints/execute_transactions.rs,                 *)
(* hints/execution.rs: a reverted transaction's execution is left out).    *)
(***************************************************************************)
OsCalls(tx) ==
    LET execute == IF tx.is_reverted THEN None ELSE tx.execute_call_info
    IN Present(IF tx.tx_type = "DEPLOY_ACCOUNT"
               THEN <<execute, tx.validate_call_info, tx.fee_transfer_call_info>>
               ELSE <<tx.validate_call_info, execute, tx.fee_transfer_call_info>>)

\* What blockifier records of a transaction: only a DEPLOY_ACCOUNT executes a
\* constructor; a reverted execution is not recorded; the legacy declare
\* transactions that the OS skips execute nothing.
ASSUME RecordedTransactions ==
    \A tx \in Transactions :
        /\ tx.tx_type \in {"INVOKE", "L1_HANDLER", "DECLARE", "DECLARE_V0",
                           "DEPLOY_ACCOUNT"}
        /\ tx.tx_type = "DEPLOY_ACCOUNT" <=>
              /\ tx.execute_call_info # None
              /\ tx.execute_call_info.entry_point_type = "Constructor"
        /\ tx.is_reverted => tx.execute_call_info = None
        /\ tx.tx_type = "DECLARE_V0" => OsCalls(tx) = <<>>

\* The OS skips a constructor call of a class without constructor: no code
\* runs, so blockifier records neither inner calls nor reads for it.
ASSUME RecordedCalls ==
    \A c \in CallInfo :
        c.no_entry_point => /\ c.entry_point_type = "Constructor"
                            /\ c.inner_calls = <<>>
                            /\ c.storage_read_values = <<>>

\* No recorded inner call of Cairo 0 code failed (its caller cannot go on).
DeprecatedCallsSucceed ==
    \A c \in CallInfo : c.deprecated =>
        \A i \in DOMAIN c.inner_calls : ~c.inner_calls[i].failed

\* No recorded constructor call failed.
ConstructorsSucceed ==
    \A c \in CallInfo : c.entry_point_type = "Constructor" => ~c.failed

NoResponse == [expected |-> None, got |-> None]

-----------------------------------------------------------------------------
(***************************************************************************)
(* Syscalls that consume the helper's iterators.  Each writes its response *)
(* to VM memory: `got`.                                                    *)
(***************************************************************************)
Respond(expected, got) == response' = [expected |-> expected, got |-> got]

CallResponse(result, address) ==
    [failed |-> result.failed, retdata |-> result.retdata, address |-> address]

\* CallContractHandler and LibraryCallHandler.
CallContract(expected) ==
    IF result_iter = <<>>
    THEN Abort("hint_error") /\ UNCHANGED response
    ELSE /\ result_iter' = Tail(result_iter)
         /\ Respond(expected, CallResponse(Head(result_iter), None))
         /\ UNCHANGED <<txVars, call_iter, call_info, call_execution_info_ptr,
                        deployed_contracts_iter, execute_code_read_iter, status>>

\* DeployHandler: a failed constructor returns before an address is taken.
Deploy(expected) ==
    CASE result_iter = <<>> -> Abort("hint_error") /\ UNCHANGED response
      [] result_iter # <<>> /\ Head(result_iter).failed ->
         /\ result_iter' = Tail(result_iter)
         /\ Respond(expected, CallResponse(Head(result_iter), None))
         /\ UNCHANGED <<txVars, call_iter, call_info, call_execution_info_ptr,
                        deployed_contracts_iter, execute_code_read_iter, status>>
      [] OTHER ->
         IF deployed_contracts_iter = <<>>
         THEN Abort("hint_error") /\ UNCHANGED response
         ELSE /\ result_iter' = Tail(result_iter)
              /\ deployed_contracts_iter' = Tail(deployed_contracts_iter)
              /\ Respond(expected, CallResponse(Head(result_iter),
                                                Head(deployed_contracts_iter)))
              /\ UNCHANGED <<txVars, call_iter, call_info,
                             call_execution_info_ptr, execute_code_read_iter,
                             status>>

\* DeprecatedOsSyscallHandler::call_contract_and_write_response: the failure
\* flag of the result is not looked at.
DeprecatedCallContract(expected) ==
    IF result_iter = <<>>
    THEN Abort("hint_error") /\ UNCHANGED response
    ELSE /\ result_iter' = Tail(result_iter)
         /\ Respond(expected, [failed |-> FALSE, address |-> None,
                               retdata |-> Head(result_iter).retdata])
         /\ UNCHANGED <<txVars, call_iter, call_info, call_execution_info_ptr,
                        deployed_contracts_iter, execute_code_read_iter, status>>

\* DeprecatedOsSyscallHandler::deploy: the result is dropped, the retdata
\* written is empty.
DeprecatedDeploy(expected) ==
    IF result_iter = <<>> \/ deployed_contracts_iter = <<>>
    THEN Abort("hint_error") /\ UNCHANGED response
    ELSE /\ result_iter' = Tail(result_iter)
         /\ deployed_contracts_iter' = Tail(deployed_contracts_iter)
         /\ Respond(expected, [failed |-> FALSE, retdata |-> None,
                               address |-> Head(deployed_contracts_iter)])
         /\ UNCHANGED <<txVars, call_iter, call_info, call_execution_info_ptr,
                        execute_code_read_iter, status>>

\* StorageReadHandler and DeprecatedOsSyscallHandler::storage_read.
StorageRead(expected) ==
    IF execute_code_read_iter = <<>>
    THEN Abort("hint_error") /\ UNCHANGED response
    ELSE /\ execute_code_read_iter' = Tail(execute_code_read_iter)
         /\ Respond(expected, Head(execute_code_read_iter))
         /\ UNCHANGED <<txVars, call_iter, call_info, call_execution_info_ptr,
                        result_iter, deployed_contracts_iter, status>>

-----------------------------------------------------------------------------
(***************************************************************************)
(* The OS program and the contract code it runs.                           *)
(***************************************************************************)
TopFrame == os_frames[Len(os_frames)]
PopCall == [os_frames EXCEPT ![Len(os_frames)] = Tail(@)]
OsIdle == os_call = None /\ os_frames = <<>>
OsBetweenCalls == os_call = None /\ os_frames # <<>>

Init ==
    /\ os_txs \in Blocks
    /\ new(os_txs)
    /\ os_frames = <<>>
    /\ os_call = None
    /\ os_pending = <<>>
    /\ os_reads = <<>>
    /\ response = NoResponse

StartTx ==
    /\ status = "running" /\ OsIdle /\ os_txs # <<>>
    /\ Head(os_txs).tx_type # "DECLARE_V0"
    /\ \E ptr \in Ptr : start_tx(ptr)
    /\ os_txs' = Tail(os_txs)
    /\ os_frames' = << OsCalls(Head(os_txs)) >>
    /\ UNCHANGED <<os_call, os_pending, os_reads, response>>

SkipTx ==
    /\ status = "running" /\ OsIdle /\ os_txs # <<>>
    /\ Head(os_txs).tx_type = "DECLARE_V0"
    /\ skip_tx
    /\ os_txs' = Tail(os_txs)
    /\ UNCHANGED <<os_frames, os_call, os_pending, os_reads, response>>

EnterCall ==
    /\ status = "running" /\ OsBetweenCalls /\ TopFrame # <<>>
    /\ ~Head(TopFrame).no_entry_point
    /\ \E ptr \in Ptr : enter_call(ptr)
    /\ os_call' = Head(TopFrame)
    /\ os_frames' = PopCall
    /\ os_pending' = Head(TopFrame).inner_calls
    /\ os_reads' = Head(TopFrame).storage_read_values
    /\ response' = NoResponse
    /\ UNCHANGED os_txs

SkipCall ==
    /\ status = "running" /\ OsBetweenCalls /\ TopFrame # <<>>
    /\ Head(TopFrame).no_entry_point
    /\ skip_call
    /\ os_frames' = PopCall
    /\ UNCHANGED <<os_txs, os_call, os_pending, os_reads, response>>

\* The code asks for its next inner call; the two kinds of code use the two
\* syscall handlers.
CallSyscall ==
    /\ status = "running" /\ os_call # None /\ os_pending # <<>>
    /\ LET c == Head(os_pending)
           isDeploy == c.entry_point_type = "Constructor"
       IN IF os_call.deprecated
          THEN IF isDeploy
               THEN DeprecatedDeploy([failed |-> FALSE, retdata |-> None,
                                      address |-> c.storage_address])
               ELSE DeprecatedCallContract(CallResponse(CallResult(c), None))
          ELSE IF isDeploy
               THEN Deploy(CallResponse(CallResult(c),
                        IF c.failed THEN None ELSE c.storage_address))
               ELSE CallContract(CallResponse(CallResult(c), None))
    /\ os_pending' = Tail(os_pending)
    /\ UNCHANGED <<os_txs, os_frames, os_call, os_reads>>

\* The code reads its contract's storage.
ReadSyscall ==
    /\ status = "running" /\ os_call # None /\ os_reads # <<>>
    /\ StorageRead(Head(os_reads))
    /\ os_reads' = Tail(os_reads)
    /\ UNCHANGED <<os_txs, os_frames, os_call, os_pending>>

\* The code has returned: check_execution exits the call, and the OS goes on
\* with the calls the code asked for.
ExitCall ==
    /\ status = "running" /\ os_call # None
    /\ os_pending = <<>> /\ os_reads = <<>>
    /\ exit_call
    /\ os_frames' = Append(os_frames, os_call.inner_calls)
    /\ os_call' = None
    /\ UNCHANGED <<os_txs, os_pending, os_reads, response>>

\* All inner calls of a call are executed.
Return ==
    /\ status = "running" /\ OsBetweenCalls /\ Len(os_frames) > 1
    /\ TopFrame = <<>>
    /\ os_frames' = SubSeq(os_frames, 1, Len(os_frames) - 1)
    /\ UNCHANGED <<helperVars, os_txs, os_call, os_pending, os_reads, response>>

EndTx ==
    /\ status = "running" /\ OsBetweenCalls /\ Len(os_frames) = 1
    /\ TopFrame = <<>>
    /\ end_tx
    /\ os_frames' = <<>>
    /\ UNCHANGED <<os_txs, os_call, os_pending, os_reads, response>>

BlockDone == OsIdle /\ os_txs = <<>>

\* The block is executed; nothing more happens.
Finished == BlockDone /\ UNCHANGED vars

Next == \/ StartTx \/ SkipTx \/ EndTx
        \/ EnterCall \/ SkipCall \/ ExitCall \/ Return
        \/ CallSyscall \/ ReadSyscall
        \/ Finished

Spec == Init /\ [][Next]_vars

\* The VM executes the OS program without stopping.
FairSpec == Spec /\ WF_vars(Next)

-----------------------------------------------------------------------------
\* The variables hold values of the Rust types.
TypeOK ==
    /\ tx_execution_info_iter \in Seq(Transactions)
    /\ tx_execution_info \in Transactions \cup {None}
    /\ tx_info_ptr \in Ptr \cup {None}
    /\ call_iter \in Seq(CallInfo)
    /\ call_info \in CallInfo \cup {None}
    /\ call_execution_info_ptr \in Ptr \cup {None}
    /\ result_iter \in Seq(CallResults)
    /\ deployed_contracts_iter \in Seq(Address)
    /\ execute_code_read_iter \in Seq(Value)
    /\ status \in {"running", "panicked", "hint_error"}
    /\ os_txs \in Seq(Transactions)
    /\ os_frames \in Seq(Seq(CallInfo))
    /\ os_call \in CallInfo \cup {None}
    /\ os_pending \in Seq(CallInfo)
    /\ os_reads \in Seq(Value)

\* No assert!, unwrap or "no more ... to replay" error of the helper and the
\* syscall handlers is ever reached (helper.rs start_tx to skip_call): the
\* order and number of the recorded calls, results, addresses and reads is
\* exactly the one in which the OS asks for them.
NeverAborts == status = "running"

\* The call whose recorded data the helper replays is the call the OS
\* executes (helper.rs gen_call_iterator: pre-order, and constructor before
\* validation in a DEPLOY_ACCOUNT).
ReplaysTheRunningCall == status = "running" => call_info = os_call

\* Contract code gets the recorded answer of the very call or read it asked
\* for: results, deployed addresses and reads are drained by three separate
\* iterators and never get out of step.
AnswersMatchQuestions == response.got = response.expected

\* The replay of a block comes to its end, with every recorded transaction
\* consumed.
ReplayCompletes == <>[](BlockDone /\ tx_execution_info_iter = <<>>)

=============================================================================
