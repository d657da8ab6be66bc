---------------------- MODULE DeprecatedSyscallHandler ----------------------
(***************************************************************************)
(* The syscalls of Cairo 0 entry points: the hints an entry point runs     *)
(* (hints/syscalls.rs), the handler behind them                            *)
(* (execution/deprecated_syscall_handler.rs), and the hints with which the *)
(* OS checks the answers (hints/execution.rs).                             *)
(*                                                                         *)
(* A Cairo 0 entry point is executed in two passes.  In the first its code *)
(* runs: each syscall is laid out in a segment of its own, and a hint      *)
(* writes the response behind the request, from what blockifier recorded.  *)
(* The code only guesses so far.  In the second pass the OS walks over the *)
(* segment from its start, by the selectors it finds there, executes every *)
(* syscall, inner calls included, and asserts that each response is the    *)
(* right one.  Return data of an inner call does not exist yet when the    *)
(* first pass asks for it: the handler puts it into a temporary segment,   *)
(* for which the second pass adds a relocation rule.                       *)
(*                                                                         *)
(* A finished entry point, and the temporary segments of a finished        *)
(* transaction, are dropped from the state: nothing reads them again.      *)
(***************************************************************************)
EXTENDS Integers, Sequences, FiniteSets

CONSTANTS
    Offered,        \* syscalls that entry points use
    MaxSyscalls,    \* bound: syscalls of a top-level entry point
    MaxInner,       \* bound: syscalls of an inner entry point
    MaxDepth,       \* bound: entry points on the call stack
    MaxTxs          \* bound: transactions

\* The syscalls; a selector is its position here.
Syscalls ==
    <<"CallContract", "DelegateCall", "DelegateL1Handler", "LibraryCall",
      "LibraryCallL1Handler", "Deploy", "StorageRead", "StorageWrite",
      "EmitEvent", "SendMessageToL1", "ReplaceClass", "GetBlockNumber",
      "GetBlockTimestamp", "GetCallerAddress", "GetContractAddress",
      "GetSequencerAddress", "GetTxInfo", "GetTxSignature">>

Selectors == DOMAIN Syscalls
selector(op) == CHOOSE i \in Selectors : Syscalls[i] = op

ASSUME DeprecatedAssumption ==
    /\ Offered \subseteq {Syscalls[i] : i \in Selectors}
    /\ MaxSyscalls \in Nat /\ MaxInner \in Nat
    /\ MaxDepth \in Nat \ {0} /\ MaxTxs \in Nat

VARIABLES
    status,                   \* "running", or how the run was lost
    txs, todo,                \* transactions so far; top-level calls to come
    stack,                    \* entry points being executed, innermost last
    tx_info_ptr,              \* ExecutionHelper.tx_info_ptr
    call_info,                \* .call_info
    call_execution_info_ptr,  \* .call_execution_info_ptr
    result_iter,              \* .result_iter
    deployed_contracts_iter,  \* .deployed_contracts_iter
    execute_code_read_iter,   \* .execute_code_read_iter
    temporary,                \* temporary segments of the VM
    relocation_rules          \* and the segments they will be moved to

callVars == <<call_info, call_execution_info_ptr>>
iterVars == <<result_iter, deployed_contracts_iter, execute_code_read_iter>>
vmVars == <<temporary, relocation_rules>>
txVars == <<txs, todo, tx_info_ptr>>
vars == <<status, stack, callVars, iterVars, vmVars, txVars>>

-----------------------------------------------------------------------------
(* Cells of memory: integers, and pointers into segments.  Temporary       *)
(* segments have negative numbers.                                         *)

Felt(n) == [seg |-> 0, off |-> n]
Ptr(seg, off) == [seg |-> seg, off |-> off]
None == [seg |-> 0, off |-> -1]

TxInfoSeg(tx) == 10 + tx
SignatureSeg(tx) == 20 + tx
BlockInfoSeg(mode) == IF mode = "validate" THEN 30 ELSE 31
ExecutionInfoSeg(depth) == 40 + depth
RetdataSeg(depth) == 50 + depth
ContextSeg(tx) == 60 + tx

\* Memory is written once: a cell may only be given the value it has.
CanInsert(mem, at, cells) ==
    \A i \in DOMAIN cells :
        at + i - 1 \in DOMAIN mem => mem[at + i - 1] = cells[i]

Insert(mem, at, cells) ==
    [o \in DOMAIN mem \cup at .. (at + Len(cells) - 1) |->
        IF o \in DOMAIN mem THEN mem[o] ELSE cells[o - at + 1]]

\* Structs that the OS program lays out in memory, as sequences of cells:
\* the TxInfo of a transaction, the ExecutionInfo of a call, the BlockInfo
\* of an execution mode (a validation sees a rounded block number and time).
TxInfo(tx) ==
    <<Felt(1), Felt(101), Felt(200 + tx), Felt(2), Ptr(SignatureSeg(tx), 0),
      Felt(210 + tx), Felt(220), Felt(tx)>>

ExecutionInfo(call) ==
    <<Ptr(BlockInfoSeg(call.mode), 0), Ptr(TxInfoSeg(txs), 0),
      Felt(call.caller_address), Felt(call.storage_address), Felt(230)>>

BlockInfo(mode) ==
    IF mode = "validate" THEN <<Felt(300), Felt(310), Felt(0)>>
                         ELSE <<Felt(301), Felt(311), Felt(320)>>

\* The block the handler was created with.
sequencer_address == 320

\* Offsets of the fields the handlers read.
signature_len_offset == 3
signature_offset == 4
deprecated_tx_info_offset == 5
block_info_offset == 0
block_number_offset == 0
block_timestamp_offset == 1

-----------------------------------------------------------------------------
(* Layouts: the structs of the entry point and of the OS program, and the  *)
(* place where each handler writes its response.                           *)

CallOps == {"CallContract", "DelegateCall", "DelegateL1Handler",
            "LibraryCall", "LibraryCallL1Handler"}
Getters == {"GetBlockNumber", "GetBlockTimestamp", "GetCallerAddress",
            "GetContractAddress", "GetSequencerAddress", "GetTxInfo",
            "GetTxSignature"}

RequestSize(op) ==
    IF op \in CallOps \cup {"EmitEvent"} THEN 5
    ELSE IF op = "Deploy" THEN 6
    ELSE IF op \in {"StorageRead", "ReplaceClass"} THEN 2
    ELSE IF op = "StorageWrite" THEN 3
    ELSE IF op = "SendMessageToL1" THEN 4
    ELSE 1    \* Getters

ResponseSize(op) ==
    IF op \in CallOps \cup {"GetTxSignature"} THEN 2
    ELSE IF op = "Deploy" THEN 3
    ELSE IF op \in {"StorageRead"} \cup Getters THEN 1
    ELSE 0

SyscallSize(op) == RequestSize(op) + ResponseSize(op)

Request(op) ==
    [i \in 1 .. RequestSize(op) |->
        IF i = 1 THEN Felt(selector(op)) ELSE Felt(0)]

\* Mutant: the flag deploy_from_zero is not counted as a field.
MutantResponseOffset(op) ==
    IF op \in CallOps \cup {"Deploy"} THEN 5
    ELSE IF op = "StorageRead" THEN 2 ELSE 1

\* X::response_offset(): 5 for CallContract and LibraryCall, 6 for Deploy,
\* 1 for the getters; a literal in storage_read and get_caller_address.
response_offset(op) ==
    IF op \in CallOps THEN 5
    ELSE IF op = "Deploy" THEN 6
    ELSE IF op = "StorageRead" THEN 2
    ELSE 1    \* Getters

-----------------------------------------------------------------------------
(* Entry points and what blockifier recorded of them.                      *)

\* What the code of an entry point asks for, in order.  A validation may
\* not ask for the sequencer (blockifier refuses it).
Scripts(mode, depth) ==
    LET ops == IF mode = "validate" THEN Offered \ {"GetSequencerAddress"}
                                    ELSE Offered
    IN UNION {[1 .. n -> ops] :
                n \in 0 .. (IF depth = 1 THEN MaxSyscalls ELSE MaxInner)}

\* How many of the first n syscalls of a script are in ops.
CountIn(script, n, ops) ==
    Cardinality({i \in 1 .. n : script[i] \in ops})

\* The answers of the recording: the n-th inner call returns 0 or 1 values,
\* the n-th deployment and the n-th read each their own value.
ResultOf(op, n) == IF op = "Deploy" \/ n % 2 = 0 THEN <<>> ELSE <<400 + n>>
DeployedAt(n) == 100 + n
ReadValue(n) == 500 + n

InnerOps == CallOps \cup {"Deploy"}
InnerOp(script, n) ==
    script[CHOOSE i \in DOMAIN script :
              script[i] \in InnerOps /\ CountIn(script, i, InnerOps) = n]

Results(script) ==
    [n \in 1 .. CountIn(script, Len(script), InnerOps) |->
        ResultOf(InnerOp(script, n), n)]
Deployed(script) ==
    [n \in 1 .. CountIn(script, Len(script), {"Deploy"}) |-> DeployedAt(n)]
Reads(script) ==
    [n \in 1 .. CountIn(script, Len(script), {"StorageRead"}) |-> ReadValue(n)]

\* The callee of a syscall of an entry point.
Callee(call, op, address) ==
    IF op = "CallContract"
    THEN [call EXCEPT !.caller_address = call.storage_address,
                      !.storage_address = call.storage_address + 1]
    ELSE IF op = "Deploy"
    THEN [call EXCEPT !.caller_address = call.storage_address,
                      !.storage_address = address]
    ELSE call

\* An entry point on the stack: its call, what its code asks for and has
\* asked for, its segment, the end of what is laid out there, the pass it is
\* in, how far the OS has come in the second and what it executed there, and
\* what the entry point returns.
Frame(call, script, retdata) ==
    [call |-> call, script |-> script, asked |-> 0, mem |-> <<>>, ptr |-> 0,
     pass |-> "code", os_ptr |-> 0, os_done |-> <<>>, retdata |-> retdata]

Top == stack[Len(stack)]
OnTop(frame) == [stack EXCEPT ![Len(stack)] = frame]
Below == SubSeq(stack, 1, Len(stack) - 1)

Lost(how) ==
    /\ status' = how
    /\ UNCHANGED <<stack, callVars, iterVars, vmVars, txVars>>

-----------------------------------------------------------------------------
(* The handlers.  Each yields the cells it writes at its response offset,  *)
(* or refuses; iterators and temporary segments change with it.            *)

\* The temporary segment the handler adds next.
NewTemporary == -(Len(temporary) + 1)

\* The entry point has laid out a request, a hint has left mem behind; the
\* code reads the response, and goes on.
Answered(op, mem) ==
    LET end == Top.ptr + SyscallSize(op) IN
    /\ stack' = OnTop([Top EXCEPT !.mem = mem, !.asked = @ + 1, !.ptr = end])
    /\ status' = IF (Top.ptr + RequestSize(op)) .. (end - 1) \subseteq DOMAIN mem
                 THEN status ELSE "unknown_memory"

\* A handler writes its response, at its offset from the pointer of the
\* entry point.
Respond(op, cells) ==
    LET at == Top.ptr + response_offset(op)
        laid == Insert(Top.mem, Top.ptr, Request(op))
    IN IF CanInsert(laid, at, cells)
       THEN Answered(op, Insert(laid, at, cells))
       ELSE status' = "inconsistent_memory" /\ UNCHANGED stack

\* Handlers with nothing to do.
NoResponse(op) ==
    /\ Answered(op, Insert(Top.mem, Top.ptr, Request(op)))
    /\ UNCHANGED <<callVars, iterVars, vmVars, txVars>>

\* Mutant: the return data is looked at, not taken.
MutantCallContract(op) ==
    IF result_iter = <<>> THEN Lost("syscall_error")
    ELSE /\ Respond(op, <<Felt(Len(Head(result_iter))), Ptr(NewTemporary, 0)>>)
         /\ temporary' = Append(temporary, Head(result_iter))
         /\ UNCHANGED <<relocation_rules, iterVars, callVars, txVars>>

call_contract_and_write_response(op) ==
    IF result_iter = <<>> THEN Lost("syscall_error")
    ELSE LET result == Head(result_iter) IN
         /\ Respond(op, <<Felt(Len(result)), Ptr(NewTemporary, 0)>>)
         /\ result_iter' = Tail(result_iter)
         /\ temporary' = Append(temporary, result)
         /\ UNCHANGED <<relocation_rules, deployed_contracts_iter,
                        execute_code_read_iter, callVars, txVars>>

\* The address of the deployed contract; return data of a constructor is
\* always empty, and not even a pointer.
deploy(op) ==
    IF result_iter = <<>> \/ deployed_contracts_iter = <<>>
    THEN Lost("syscall_error")
    ELSE /\ Respond(op, <<Felt(Head(deployed_contracts_iter)), Felt(0), Felt(0)>>)
         /\ result_iter' = Tail(result_iter)
         /\ deployed_contracts_iter' = Tail(deployed_contracts_iter)
         /\ UNCHANGED <<execute_code_read_iter, callVars, vmVars, txVars>>

storage_read(op) ==
    IF execute_code_read_iter = <<>> THEN Lost("syscall_error")
    ELSE /\ Respond(op, <<Felt(Head(execute_code_read_iter))>>)
         /\ execute_code_read_iter' = Tail(execute_code_read_iter)
         /\ UNCHANGED <<result_iter, deployed_contracts_iter, callVars, vmVars,
                        txVars>>

\* The field of the block info that the current execution info points to.
BlockField(offset) ==
    LET block_info_ptr == ExecutionInfo(call_info)[block_info_offset + 1]
        mode == IF block_info_ptr.seg = BlockInfoSeg("validate")
                THEN "validate" ELSE "execute"
    IN BlockInfo(mode)[offset + 1]

\* The transaction whose info the helper points to.
InfoTx == tx_info_ptr.seg - TxInfoSeg(0)

\* Whether the helper points to one at all.
HasTxInfo == tx_info_ptr.seg = TxInfoSeg(txs)

\* What a getter answers, and whether it can.
CanGet(op) ==
    /\ op \in {"GetBlockNumber", "GetBlockTimestamp"} =>
          call_execution_info_ptr # None
    /\ op \in {"GetTxInfo", "GetTxSignature"} => tx_info_ptr # None

get_block_number == <<BlockField(block_number_offset)>>
get_block_timestamp == <<BlockField(block_timestamp_offset)>>
get_caller_address == <<Felt(call_info.caller_address)>>
get_contract_address == <<Felt(call_info.storage_address)>>
get_sequencer_address == <<Felt(sequencer_address)>>
get_tx_info == <<tx_info_ptr>>
\* Through a pointer to something else the cells read are those of another
\* struct.
get_tx_signature ==
    IF HasTxInfo
    THEN <<TxInfo(InfoTx)[signature_len_offset + 1],
           TxInfo(InfoTx)[signature_offset + 1]>>
    ELSE <<Felt(0), Ptr(ContextSeg(txs), 0)>>

Got(op) ==
    IF op = "GetBlockNumber" THEN get_block_number
    ELSE IF op = "GetBlockTimestamp" THEN get_block_timestamp
    ELSE IF op = "GetCallerAddress" THEN get_caller_address
    ELSE IF op = "GetContractAddress" THEN get_contract_address
    ELSE IF op = "GetSequencerAddress" THEN get_sequencer_address
    ELSE IF op = "GetTxInfo" THEN get_tx_info
    ELSE get_tx_signature

\* Cells of another struct may also be missing, or of the wrong kind.
Getter(op) ==
    \/ /\ ~CanGet(op) \/ (op = "GetTxSignature" /\ ~HasTxInfo)
       /\ Lost("syscall_error")
    \/ /\ CanGet(op)
       /\ Respond(op, Got(op))
       /\ UNCHANGED <<callVars, iterVars, vmVars, txVars>>

\* The hint of a call runs the handler; delegate_call runs storage_write,
\* which does nothing.
CallHint(op) ==
    IF op = "DelegateCall" THEN NoResponse(op)
                           ELSE call_contract_and_write_response(op)

-----------------------------------------------------------------------------
(* The first pass.                                                         *)

start_tx ==
    /\ status = "running" /\ tx_info_ptr = None /\ txs < MaxTxs
    /\ txs' = txs + 1
    /\ tx_info_ptr' = Ptr(TxInfoSeg(txs + 1), 0)
    \* an account's transaction is validated first, an L1 handler's is not
    /\ todo' \in {<<"validate", "execute">>, <<"execute">>}
    /\ UNCHANGED <<status, stack, callVars, iterVars, vmVars>>

\* The transaction is a declaration.  This hint does not follow the pointer to
\* the TxInfo: it passes on the address of the cell that holds it.
start_tx_validate_declare_execution_context ==
    /\ status = "running" /\ tx_info_ptr = None /\ txs < MaxTxs
    /\ txs' = txs + 1
    /\ tx_info_ptr' = Ptr(ContextSeg(txs + 1), deprecated_tx_info_offset)
    /\ todo' = <<"validate", "execute">>
    /\ UNCHANGED <<status, stack, callVars, iterVars, vmVars>>

\* enter_call: the helper takes the recording of the call, whose code gets a
\* fresh segment (os_context_segments).
Enter(below, call, retdata) ==
    \E script \in Scripts(call.mode, Len(below) + 1) :
        /\ stack' = Append(below, Frame(call, script, retdata))
        /\ call_info' = call
        /\ call_execution_info_ptr' = Ptr(ExecutionInfoSeg(Len(below) + 1), 0)
        /\ result_iter' = Results(script)
        /\ deployed_contracts_iter' = Deployed(script)
        /\ execute_code_read_iter' = Reads(script)

enter_call ==
    /\ status = "running" /\ stack = <<>> /\ todo # <<>>
    /\ Enter(<<>>, [mode |-> Head(todo), caller_address |-> 0,
                    storage_address |-> 1], <<>>)
    /\ todo' = Tail(todo)
    /\ UNCHANGED <<status, txs, tx_info_ptr, vmVars>>

Running == status = "running" /\ stack # <<>> /\ Top.pass = "code"
Asks(op) == Running /\ Top.asked < Len(Top.script)
                    /\ Top.script[Top.asked + 1] = op

CallSyscall ==
    \E op \in CallOps : Asks(op) /\ CallHint(op)
DeploySyscall == Asks("Deploy") /\ deploy("Deploy")
StorageReadSyscall == Asks("StorageRead") /\ storage_read("StorageRead")
GetterSyscall == \E op \in Getters : Asks(op) /\ Getter(op)
StorageWriteSyscall == Asks("StorageWrite") /\ NoResponse("StorageWrite")
EmitEventSyscall == Asks("EmitEvent") /\ NoResponse("EmitEvent")
SilentSyscall ==
    \E op \in {"SendMessageToL1", "ReplaceClass"} : Asks(op) /\ NoResponse(op)

\* The code has returned.
exit_call ==
    /\ Running /\ Top.asked = Len(Top.script)
    /\ IF /\ result_iter = <<>> /\ deployed_contracts_iter = <<>>
          /\ execute_code_read_iter = <<>>
       THEN /\ call_info' = None /\ call_execution_info_ptr' = None
            /\ stack' = OnTop([Top EXCEPT !.pass = "os"])
            /\ UNCHANGED <<status, iterVars, vmVars, txVars>>
       ELSE Lost("panicked")

-----------------------------------------------------------------------------
(* The second pass.                                                        *)

Executing == status = "running" /\ stack # <<>> /\ Top.pass = "os"
AtEnd == Top.os_ptr = Top.ptr

\* The syscall the OS finds at its pointer, and its response.
Found(frame) ==
    LET cell == frame.mem[frame.os_ptr]
    IN IF cell.seg = 0 /\ cell.off \in Selectors THEN Syscalls[cell.off]
                                                 ELSE "unknown"
Response(frame, op) ==
    [i \in 1 .. ResponseSize(op) |->
        frame.mem[frame.os_ptr + RequestSize(op) + i - 1]]

\* The OS has checked a syscall, and goes on to the next; the hints that log
\* the end of a syscall do nothing.
exit_syscall(frame, op) ==
    [frame EXCEPT !.os_ptr = @ + SyscallSize(op), !.os_done = Append(@, op)]

\* How many of the syscalls executed so far are in ops.
Done(frame, ops) == CountIn(frame.os_done, Len(frame.os_done), ops)

\* What the syscall at the OS's pointer really returns.
ActualRetdata(frame, op) ==
    ResultOf(op, Done(frame, InnerOps) + 1)
ActualAddress(frame) == DeployedAt(Done(frame, {"Deploy"}) + 1)
ActualCells(frame, op) ==
    IF op = "StorageRead" THEN <<Felt(ReadValue(Done(frame, {"StorageRead"}) + 1))>>
    ELSE IF op = "Deploy" THEN <<Felt(ActualAddress(frame)), Felt(0), Felt(0)>>
    ELSE IF op = "GetBlockNumber" THEN <<BlockInfo(frame.call.mode)[1]>>
    ELSE IF op = "GetBlockTimestamp" THEN <<BlockInfo(frame.call.mode)[2]>>
    ELSE IF op = "GetSequencerAddress" THEN <<BlockInfo(frame.call.mode)[3]>>
    ELSE IF op = "GetCallerAddress" THEN <<Felt(frame.call.caller_address)>>
    ELSE IF op = "GetContractAddress" THEN <<Felt(frame.call.storage_address)>>
    ELSE IF op = "GetTxInfo" THEN <<Ptr(TxInfoSeg(txs), 0)>>
    ELSE IF op = "GetTxSignature" THEN <<Felt(2), Ptr(SignatureSeg(txs), 0)>>
    ELSE <<>>

\* The return data is the one the response points to, cell by cell, and as
\* long.
check_syscall_response(response, retdata) ==
    /\ response[2].seg < 0
    /\ temporary[-response[2].seg] = retdata
    /\ response[1] = Felt(Len(retdata))

\* Mutant: a rule is added for return data that is not empty.
MutantRelocationRule(src_ptr, retdata) ==
    IF retdata = <<>> THEN UNCHANGED relocation_rules
    ELSE relocation_rules' =
            [i \in DOMAIN relocation_rules \cup {-src_ptr.seg} |->
                IF i = -src_ptr.seg THEN retdata ELSE relocation_rules[i]]

\* The temporary segment will become the segment the callee returned.
add_relocation_rule(src_ptr, retdata) ==
    relocation_rules' =
        [i \in DOMAIN relocation_rules \cup {-src_ptr.seg} |->
            IF i = -src_ptr.seg THEN retdata ELSE relocation_rules[i]]

CanRelocate(src_ptr) ==
    src_ptr.off = 0 /\ src_ptr.seg < 0
        /\ -src_ptr.seg \notin DOMAIN relocation_rules

\* The OS has executed an inner call of the entry point on top of frames.
CheckCall(frames, op, retdata) ==
    LET frame == frames[Len(frames)]
        response == Response(frame, op)
        checked == [frames EXCEPT ![Len(frames)] = exit_syscall(frame, op)]
    IN IF op = "Deploy"
       THEN IF response = ActualCells(frame, op)
            THEN stack' = checked /\ UNCHANGED <<status, vmVars>>
            ELSE status' = "refused" /\ UNCHANGED <<stack, vmVars>>
       ELSE IF /\ check_syscall_response(response, retdata)
               /\ CanRelocate(response[2])
            THEN /\ add_relocation_rule(response[2], retdata)
                 /\ stack' = checked
                 /\ UNCHANGED <<status, temporary>>
            ELSE status' = "refused" /\ UNCHANGED <<stack, vmVars>>

AtCall(op) == Executing /\ ~AtEnd /\ Found(Top) = op

\* The callee is another Cairo 0 entry point, ...
ExecuteCall ==
    \E op \in InnerOps :
        /\ AtCall(op) /\ Len(stack) < MaxDepth
        /\ Enter(stack, Callee(Top.call, op, ActualAddress(Top)),
                 ActualRetdata(Top, op))
        /\ UNCHANGED <<status, vmVars, txVars>>

\* ... or one of Cairo 1, or a class without a constructor.
ExecuteOther ==
    \E op \in InnerOps :
        /\ AtCall(op)
        /\ CheckCall(stack, op, ActualRetdata(Top, op))
        /\ UNCHANGED <<callVars, iterVars, txVars>>

\* Every other syscall: the OS asserts that the response is its own.
ExecuteSyscall ==
    /\ Executing /\ ~AtEnd /\ Found(Top) \notin InnerOps
    /\ LET op == Found(Top) IN
       IF op # "unknown" /\ Response(Top, op) = ActualCells(Top, op)
       THEN stack' = OnTop(exit_syscall(Top, op)) /\ UNCHANGED status
       ELSE status' = "refused" /\ UNCHANGED stack
    /\ UNCHANGED <<callVars, iterVars, vmVars, txVars>>

\* An entry point is executed; its caller's check follows.
Return ==
    /\ Executing /\ AtEnd
    /\ IF Len(stack) = 1
       THEN stack' = <<>> /\ UNCHANGED <<status, vmVars>>
       ELSE CheckCall(Below, Found(Below[Len(Below)]), Top.retdata)
    /\ UNCHANGED <<callVars, iterVars, txVars>>

end_tx ==
    /\ status = "running" /\ stack = <<>> /\ todo = <<>> /\ tx_info_ptr # None
    /\ tx_info_ptr' = None
    /\ temporary' = <<>> /\ relocation_rules' = <<>>
    /\ UNCHANGED <<status, stack, callVars, iterVars, txs, todo>>

-----------------------------------------------------------------------------
Init ==
    /\ status = "running" /\ txs = 0 /\ todo = <<>> /\ stack = <<>>
    /\ tx_info_ptr = None /\ call_info = None
    /\ call_execution_info_ptr = None
    /\ result_iter = <<>> /\ deployed_contracts_iter = <<>>
    /\ execute_code_read_iter = <<>>
    /\ temporary = <<>> /\ relocation_rules = <<>>

\* The block is executed, or the run was lost.
Stopped ==
    /\ \/ status # "running"
       \/ stack = <<>> /\ todo = <<>> /\ tx_info_ptr = None /\ txs = MaxTxs
    /\ UNCHANGED vars

Next == \/ start_tx \/ start_tx_validate_declare_execution_context
        \/ enter_call \/ exit_call \/ end_tx
        \/ CallSyscall \/ DeploySyscall
        \/ StorageReadSyscall \/ StorageWriteSyscall \/ EmitEventSyscall
        \/ GetterSyscall \/ SilentSyscall
        \/ ExecuteCall \/ ExecuteOther \/ ExecuteSyscall \/ Return
        \/ Stopped

Spec == Init /\ [][Next]_vars

-----------------------------------------------------------------------------
(* What a Cairo 0 entry point and the OS rely on.                          *)

\* Every response the handler guesses in the first pass is, in the second,
\* the one the OS asserts: written where the entry point and the OS program
\* look for it, over nothing else, from the recording of that very syscall,
\* and about the call and the transaction that asked, however calls are
\* nested and however often pointers of the helper were set and cleared
\* meanwhile.  No iterator is empty too early or left over at exit_call.  The
\* one exception: a declaration, whose account asks for the transaction's info
\* or signature (start_tx_validate_declare_execution_context).
NothingIsRefused ==
    \/ status = "running"
    \/ /\ tx_info_ptr.seg = ContextSeg(txs)
       /\ \E i \in DOMAIN Top.script : Top.script[i] \in {"GetTxInfo", "GetTxSignature"}

\* One recorded result is taken for each inner call and each deployment the
\* code has asked for, one address for each deployment and one value for each
\* read: what is left in the iterators is what the code still has to ask for
\* (each hint of hints/syscalls.rs runs the handler its text names).
AnswersInStep ==
    /\ status \in {"running", "unknown_memory"}
    /\ stack # <<>> /\ Top.pass = "code"
    =>
        LET left(ops) == CountIn(Top.script, Len(Top.script), ops)
                            - CountIn(Top.script, Top.asked, ops)
        IN /\ Len(result_iter) = left(InnerOps)
           /\ Len(deployed_contracts_iter) = left({"Deploy"})
           /\ Len(execute_code_read_iter) = left({"StorageRead"})

\* When a top-level call is executed, each temporary segment handed out in
\* the transaction has a relocation rule, to a segment with its contents: no
\* pointer of a first pass dangles in the finished memory, empty return data
\* included (add_relocation_rule, hints/execution.rs).
TemporarySegmentsMoved ==
    status = "running" /\ stack = <<>> =>
        /\ DOMAIN relocation_rules = DOMAIN temporary
        /\ \A i \in DOMAIN temporary : relocation_rules[i] = temporary[i]

=============================================================================
