-------------------------- MODULE SyscallHandler --------------------------
(***************************************************************************)
(* The syscall handler of Cairo 1 entry points (execution/syscall_handler, *)
(* syscall_handler_utils, secp_handler) and the entry point that calls it. *)
(*                                                                         *)
(* An entry point owns a fresh memory segment.  For every syscall it lays  *)
(* out a selector, a gas counter and the fields of the request, and runs   *)
(* the execute_syscall hint; the handler finds the request through its own *)
(* copy of the pointer, runs one handler, and writes the response behind   *)
(* the request.  The two pointers are advanced independently, by code      *)
(* compiled from two descriptions of the same structs, and VM memory can   *)
(* be written only once.  Two results of syscalls outlive the response:    *)
(* points of an elliptic curve and SHA-256 states are handed out as        *)
(* pointers, into segments the handler fills for a whole block.            *)
(*                                                                         *)
(* What a call, a read or a deployment answers is the subject of Replay;   *)
(* here it is any answer.                                                  *)
(***************************************************************************)
EXTENDS Integers, Sequences

CONSTANTS
    MaxSyscalls,    \* bound: syscalls in a behaviour
    MaxEntryPoints, \* bound: entry points in a behaviour
    InitialGas,     \* gas an entry point starts with
    GasModulus,     \* stands for 2^64, above every cost
    ShortOfGas      \* operations an entry point may ask for without the gas

ASSUME SyscallHandlerAssumption ==
    /\ MaxSyscalls \in Nat /\ MaxEntryPoints \in Nat
    /\ InitialGas \in Nat /\ GasModulus \in Nat
    /\ InitialGas < GasModulus

VARIABLES
    pc,             \* where the OS is with respect to the entry point
    mem,            \* cells of the syscall segment that have been written
    code_ptr,       \* next syscall of the entry point, an offset into mem
    code_gas,       \* gas left to the entry point
    request,        \* the last syscall asked for
    handles,        \* pointers the entry point holds, with what they mean
    syscall_ptr,    \* OsSyscallHandler.syscall_ptr
    secp,           \* ExecutionHelper.secp256{k1,r1}_syscall_processor
    sha256_segment, \* ExecutionHelper.sha256_segment
    sha_mem,        \* states written to the SHA-256 segment, by offset
    asked, entries  \* syscalls and entry points so far

vars == <<pc, mem, code_ptr, code_gas, request, handles, syscall_ptr, secp,
          sha256_segment, sha_mem, asked, entries>>

-----------------------------------------------------------------------------
(* Cells of VM memory: integers and pointers (segment, offset).            *)

Felt(n) == [seg |-> 0, off |-> n]
Ptr(seg, off) == [seg |-> seg, off |-> off]

\* Segment numbers: any data segment, the SHA-256 segment, one per curve.
DataSeg == 1
ShaSeg == 2
Curve == {"k1", "r1"}
SecpSeg(curve) == IF curve = "k1" THEN 3 ELSE 4

Kind(cell) == IF cell.seg = 0 THEN "felt" ELSE "ptr"

\* Option<Relocatable>::None
NoPtr == -1

\* Memory is written once: a cell may only be given the value it has.
Consistent(m, p, cells) ==
    \A i \in 1 .. Len(cells) :
        p + i - 1 \in DOMAIN m => m[p + i - 1] = cells[i]

Written(m, p, cells) ==
    [o \in DOMAIN m \cup p .. (p + Len(cells) - 1) |->
        IF o \in DOMAIN m THEN m[o] ELSE cells[o - p + 1]]

-----------------------------------------------------------------------------
(* Selectors, layouts and costs.                                           *)

SecpOps == {"SecpNew", "SecpGetXy", "SecpGetPointFromX", "SecpMul", "SecpAdd"}

\* The selectors: an operation, and the curve of the secp operations.
\* DelegateCall stands for every selector without a handler.
SyscallSelector ==
    LET plain == <<"CallContract", "Deploy", "EmitEvent", "GetBlockHash",
                   "GetExecutionInfo", "LibraryCall", "LibraryCallL1Handler",
                   "ReplaceClass", "SendMessageToL1", "StorageRead",
                   "StorageWrite", "Keccak", "Sha256ProcessBlock", "DelegateCall">>
        secp_ops == <<"SecpNew", "SecpGetXy", "SecpGetPointFromX", "SecpMul",
                      "SecpAdd">>
    IN  [k \in 1 .. 24 |-> IF k <= 14 THEN <<plain[k], "">>
                           ELSE IF k <= 19 THEN <<secp_ops[k - 14], "k1">>
                           ELSE <<secp_ops[k - 19], "r1">>]

\* The request structs an entry point fills, field by field.
RequestLayout ==
    [CallContract         |-> <<"felt", "felt", "ptr", "ptr">>,
     Deploy               |-> <<"felt", "felt", "ptr", "ptr", "felt">>,
     EmitEvent            |-> <<"ptr", "ptr", "ptr", "ptr">>,
     GetBlockHash         |-> <<"felt">>,
     GetExecutionInfo     |-> <<>>,
     LibraryCall          |-> <<"felt", "felt", "ptr", "ptr">>,
     LibraryCallL1Handler |-> <<"felt", "felt", "ptr", "ptr">>,
     ReplaceClass         |-> <<"felt">>,
     SendMessageToL1      |-> <<"felt", "ptr", "ptr">>,
     StorageRead          |-> <<"felt", "felt">>,
     StorageWrite         |-> <<"felt", "felt", "felt">>,
     Keccak               |-> <<"ptr", "ptr">>,
     Sha256ProcessBlock   |-> <<"ptr", "ptr">>,
     DelegateCall         |-> <<"felt", "felt", "ptr", "ptr">>,
     SecpNew              |-> <<"felt", "felt", "felt", "felt">>,
     SecpGetXy            |-> <<"ptr">>,
     SecpGetPointFromX    |-> <<"felt", "felt", "felt">>,
     SecpMul              |-> <<"ptr", "felt", "felt">>,
     SecpAdd              |-> <<"ptr", "ptr">>]

\* Size of the response an entry point expects, without gas and flag.
ResponseSize ==
    [CallContract |-> 2, Deploy |-> 3, EmitEvent |-> 0, GetBlockHash |-> 1,
     GetExecutionInfo |-> 1, LibraryCall |-> 2, LibraryCallL1Handler |-> 2,
     ReplaceClass |-> 0, SendMessageToL1 |-> 0, StorageRead |-> 1,
     StorageWrite |-> 0, Keccak |-> 2, Sha256ProcessBlock |-> 1,
     DelegateCall |-> 2, SecpNew |-> 2, SecpGetXy |-> 4,
     SecpGetPointFromX |-> 2, SecpMul |-> 1, SecpAdd |-> 1]

MutantReadLayout ==
    [RequestLayout EXCEPT !["Deploy"] = <<"skip", "skip", "skip", "skip">>]

\* What each read_request looks at: the cells it decodes, as an integer or
\* as a pointer, and the ones it steps over.
ReadLayout ==
    [CallContract         |-> <<"skip", "skip", "skip", "skip">>,
     Deploy               |-> <<"skip", "skip", "skip", "skip", "skip">>,
     EmitEvent            |-> <<"skip", "skip", "skip", "skip">>,
     GetBlockHash         |-> <<"felt">>,
     GetExecutionInfo     |-> <<>>,
     LibraryCall          |-> <<"skip", "skip", "skip", "skip">>,
     LibraryCallL1Handler |-> <<"skip", "skip", "skip", "skip">>,
     ReplaceClass         |-> <<"skip">>,
     SendMessageToL1      |-> <<"skip", "skip", "skip">>,
     StorageRead          |-> <<"felt", "skip">>,
     StorageWrite         |-> <<"felt", "skip", "skip">>,
     Keccak               |-> <<"ptr", "ptr">>,
     Sha256ProcessBlock   |-> <<"ptr", "ptr">>,
     SecpNew              |-> <<"felt", "felt", "felt", "felt">>,
     SecpGetXy            |-> <<"ptr">>,
     SecpGetPointFromX    |-> <<"felt", "felt", "felt">>,
     SecpMul              |-> <<"ptr", "felt", "felt">>,
     SecpAdd              |-> <<"ptr", "ptr">>]

STEP_GAS_COST == 100
RANGE_CHECK_GAS_COST == 70
MEMORY_HOLE_GAS_COST == 10
SYSCALL_BASE_GAS_COST == 100 * STEP_GAS_COST
ENTRY_POINT_GAS_COST == 100 * STEP_GAS_COST + 500 * STEP_GAS_COST
KECCAK_ROUND_COST_GAS_COST == 180000
KECCAK_FULL_RATE_IN_U64S == 17

\* Cost in steps, range checks and memory holes of a secp operation.
SecpCost(steps, checks, holes) ==
    steps * STEP_GAS_COST + checks * RANGE_CHECK_GAS_COST
        + holes * MEMORY_HOLE_GAS_COST

\* The costs execute_syscall passes to run_handler.
SecpGasCost ==
    [k1 |-> [SecpAdd           |-> SecpCost(406, 29, 0),
             SecpGetPointFromX |-> SecpCost(391, 30, 20),
             SecpGetXy         |-> SecpCost(239, 11, 40),
             SecpMul           |-> SecpCost(76501, 7045, 2),
             SecpNew           |-> SecpCost(475, 35, 40)],
     r1 |-> [SecpAdd           |-> SecpCost(589, 57, 0),
             SecpGetPointFromX |-> SecpCost(510, 44, 20),
             SecpGetXy         |-> SecpCost(241, 11, 40),
             SecpMul           |-> SecpCost(125340, 13961, 2),
             SecpNew           |-> SecpCost(594, 49, 40)]]

PlainGasCost ==
    LET base(steps) == SYSCALL_BASE_GAS_COST + steps * STEP_GAS_COST
    IN  [CallContract         |-> base(10) + ENTRY_POINT_GAS_COST,
         Deploy               |-> base(200) + ENTRY_POINT_GAS_COST,
         EmitEvent            |-> base(10),
         GetBlockHash         |-> base(50),
         GetExecutionInfo     |-> base(10),
         LibraryCall          |-> base(10) + ENTRY_POINT_GAS_COST,
         LibraryCallL1Handler |-> base(10) + ENTRY_POINT_GAS_COST,
         ReplaceClass         |-> base(50),
         SendMessageToL1      |-> base(50),
         StorageRead          |-> base(50),
         StorageWrite         |-> base(50),
         Keccak               |-> SYSCALL_BASE_GAS_COST,
         Sha256ProcessBlock   |-> 1115 * 594 + 65 * RANGE_CHECK_GAS_COST
                                     + base(1852),
         DelegateCall         |-> SYSCALL_BASE_GAS_COST]

syscall_gas_cost(op, curve) ==
    IF op \in SecpOps THEN SecpGasCost[curve][op] ELSE PlainGasCost[op]

required_gas(op, curve) == syscall_gas_cost(op, curve) - SYSCALL_BASE_GAS_COST

-----------------------------------------------------------------------------
(* The elliptic curves: a group of three points.  The coordinates of point *)
(* p are x = p and y = 0; x = OffCurve is on no point, x = BeyondModulus   *)
(* is not an element of the field.                                         *)

Point == 0 .. 2
OffCurve == 3
BeyondModulus == 4

\* A coordinate is two limbs; LIMB stands for 2^128.
LIMB == 4
pack(low, high) == high * LIMB + low
u256(value) == <<Felt(value % LIMB), Felt(value \div LIMB)>>

\* SecpHintProcessor, of the blockifier: points are kept in a vector, and
\* their id is their index.
secp_new(x, y) ==
    IF x = BeyondModulus THEN "invalid"
    ELSE IF x \in Point /\ y = 0 THEN "point" ELSE "none"

secp_get_point_from_x(x) ==
    IF x = BeyondModulus THEN "invalid"
    ELSE IF x \in Point THEN "point" ELSE "none"

WithParity(x, parity) == IF parity = 0 THEN x ELSE (3 - x) % 3

EcCoordinate_size == 6

MutantEcPointPtr(curve, id) == Ptr(SecpSeg(curve), id)

\* The pointer handed out for a point, and the point a pointer names.
EcPointPtr(curve, id) == Ptr(SecpSeg(curve), id * EcCoordinate_size)
EcPointId(cell) == cell.off \div EcCoordinate_size

-----------------------------------------------------------------------------
(* The handlers.                                                           *)

\* An outcome of SyscallHandler::execute: a response, a syscall failure or an
\* error that stops the hint, the gas left, and what the helper keeps.
Outcome(result, gas, cells, secp1, sha1, sha_mem1) ==
    [result |-> result, gas |-> gas, cells |-> cells, secp |-> secp1,
     sha256_segment |-> sha1, sha_mem |-> sha_mem1]

\* An outcome that leaves the helper alone.
Plain(result, gas, cells) ==
    Outcome(result, gas, cells, secp, sha256_segment, sha_mem)

\* read_request: whether the request at p can be read.
CanRead(op, m, p) ==
    LET layout == ReadLayout[op]
    IN  /\ \A i \in 1 .. Len(layout) :
             \/ layout[i] = "skip"
             \/ p + i - 1 \in DOMAIN m /\ Kind(m[p + i - 1]) = layout[i]
        /\ op \in {"StorageRead", "StorageWrite"} => m[p] = Felt(0)
        /\ op = "SecpGetPointFromX" => m[p + 2] \in {Felt(0), Felt(1)}

\* CallContract, LibraryCall and Deploy: the replayed result consumed some of
\* the gas it was given, and failed or returned data.
CallOutcomes(op, gas) ==
    LET retdata == <<Ptr(DataSeg, 0), Ptr(DataSeg, 1)>>
        answers == IF op = "Deploy"
                   THEN {<<Felt(7)>> \o retdata, <<Felt(7), Felt(0), Felt(0)>>}
                   ELSE {retdata}
    IN  UNION { {Plain("failure", (gas - consumed) % GasModulus, <<>>)}
                  \cup {Plain("response", (gas - consumed) % GasModulus, cells) :
                          cells \in answers} :
                consumed \in {0, gas} }

KeccakOutcome(gas, m, p) ==
    LET input_len == m[p + 1].off - m[p].off
        gas_cost  == (input_len \div KECCAK_FULL_RATE_IN_U64S)
                        * KECCAK_ROUND_COST_GAS_COST
    IN  IF input_len % KECCAK_FULL_RATE_IN_U64S # 0
        THEN Plain("failure", gas, <<>>)
        ELSE IF gas_cost > gas THEN Plain("error", gas, <<>>)
        ELSE Plain("response", gas - gas_cost, <<Felt(8), Felt(9)>>)

MutantAdvanced(segment) == segment

\* The end of the state written 24 cells into a Sha256ProcessBlock.
Advanced(segment) == segment + 24 + 8

\* The state is the number of blocks compressed into it: the one a pointer
\* of an earlier response leads to, or the initial one.
ShaOutcome(gas, m, p) ==
    LET prev    == IF m[p].seg = ShaSeg THEN sha_mem[m[p].off] ELSE 0
        segment == IF sha256_segment = NoPtr THEN 0 ELSE sha256_segment
        out     == segment + 24
    IN  IF Consistent(sha_mem, out, <<prev + 1>>)
        THEN Outcome("response", gas, <<Ptr(ShaSeg, out)>>, secp,
                     Advanced(segment), Written(sha_mem, out, <<prev + 1>>))
        ELSE Plain("error", gas, <<>>)

\* The processor allocates a point; its first point opens the segment.
Allocate(curve, point) ==
    [secp EXCEPT ![curve] = [points |-> Append(@.points, point), segment |-> TRUE]]

\* SecpNew and SecpGetPointFromX: Option<SecpPoint>.
OptionalPoint(gas, curve, found, point) ==
    IF found = "invalid" THEN Plain("failure", gas, <<>>)
    ELSE IF found = "none" THEN Plain("response", gas, <<Felt(1), Felt(0)>>)
    ELSE Outcome("response", gas,
                 <<Felt(0), EcPointPtr(curve, Len(secp[curve].points))>>,
                 Allocate(curve, point), sha256_segment, sha_mem)

\* SecpMul and SecpAdd: the segment is there, the points are known.
PointOp(gas, curve, ids, point) ==
    IF secp[curve].segment /\ \A id \in ids : id < Len(secp[curve].points)
    THEN Outcome("response", gas, <<EcPointPtr(curve, Len(secp[curve].points))>>,
                 Allocate(curve, point), sha256_segment, sha_mem)
    ELSE Plain("error", gas, <<>>)

SecpOutcome(op, curve, gas, m, p) ==
    LET f(i)      == m[p + i - 1]
        known(i)  == EcPointId(f(i)) < Len(secp[curve].points)
        point(i)  == IF known(i) THEN secp[curve].points[EcPointId(f(i)) + 1] ELSE 0
        number(i) == pack(f(i).off, f(i + 1).off)
    IN  IF op = "SecpNew"
        THEN OptionalPoint(gas, curve, secp_new(number(1), number(3)), number(1))
        ELSE IF op = "SecpGetPointFromX"
        THEN OptionalPoint(gas, curve, secp_get_point_from_x(number(1)),
                           WithParity(number(1), f(3).off))
        ELSE IF op = "SecpMul"
        THEN PointOp(gas, curve, {EcPointId(f(1))}, (point(1) * number(2)) % 3)
        ELSE IF op = "SecpAdd"
        THEN PointOp(gas, curve, {EcPointId(f(1)), EcPointId(f(2))},
                     (point(1) + point(2)) % 3)
        ELSE IF secp[curve].segment /\ known(1)
        THEN Plain("response", gas, u256(point(1)) \o u256(0))
        ELSE Plain("error", gas, <<>>)

\* SyscallHandler::execute of every handler, on the request at p.
Execute(op, curve, gas, m, p) ==
    IF op \in {"CallContract", "LibraryCall", "LibraryCallL1Handler", "Deploy"}
    THEN CallOutcomes(op, gas)
    ELSE IF op \in {"EmitEvent", "ReplaceClass", "SendMessageToL1", "StorageWrite"}
    THEN {Plain("response", gas, <<>>)}
    ELSE IF op \in {"GetBlockHash", "StorageRead"}
    THEN {Plain("response", gas, <<Felt(5)>>)}
    ELSE IF op = "GetExecutionInfo"
    THEN {Plain("response", gas, <<Ptr(DataSeg, 3)>>)}
    ELSE IF op = "Keccak" THEN {KeccakOutcome(gas, m, p)}
    ELSE IF op = "Sha256ProcessBlock" THEN {ShaOutcome(gas, m, p)}
    ELSE {SecpOutcome(op, curve, gas, m, p)}

MutantFailure(gas) ==
    <<Felt(gas), Felt(1), Ptr(DataSeg, 0), Ptr(DataSeg, 1), Felt(1)>>

\* What write_failure writes.
Failure(gas) == <<Felt(gas), Felt(1), Ptr(DataSeg, 0), Ptr(DataSeg, 1)>>

MutantOutOfGas(gas_counter, required) == FALSE

OutOfGas(gas_counter, required) == gas_counter < required

\* run_handler, from the gas counter at p on: the ways it can end.  The end
\* of a run that stops with an error is Plain("error", ...).
run_handler(op, curve, m, p) ==
    LET gas_counter == m[p].off
        required    == required_gas(op, curve)
        remaining   == (gas_counter - required) % GasModulus
        after       == p + 1 + Len(ReadLayout[op])
    IN  IF OutOfGas(gas_counter, required)
        THEN {[ptr |-> p + 1, outcome |-> Plain("failure", gas_counter, <<>>)]}
        ELSE IF ~CanRead(op, m, p + 1)
        THEN {[ptr |-> p + 1, outcome |-> Plain("error", gas_counter, <<>>)]}
        ELSE {[ptr |-> after, outcome |-> o] :
                 o \in Execute(op, curve, remaining, m, p + 1)}

\* The cells written for an outcome.
ResponseCells(outcome) ==
    IF outcome.result = "failure" THEN Failure(outcome.gas)
    ELSE <<Felt(outcome.gas), Felt(0)>> \o outcome.cells

-----------------------------------------------------------------------------
(* The entry point: what it may ask, and what it makes of an answer.       *)

\* Pointers the entry point holds into a segment.
Held(seg) == {h \in DOMAIN handles : h.seg = seg}

\* Fields of the requests an entry point may fill in.  Address domains and
\* parities are felts it chooses; points and states are pointers it was given.
RequestFields(op, curve) ==
    IF op \in {"StorageRead", "StorageWrite"}
    THEN {[i \in 1 .. Len(RequestLayout[op]) |-> IF i = 1 THEN d ELSE Felt(6)] :
             d \in {Felt(0), Felt(1)}}
    ELSE IF op = "Keccak"
    THEN {<<Ptr(DataSeg, 0), Ptr(DataSeg, n)>> : n \in {0, 1, KECCAK_FULL_RATE_IN_U64S}}
    ELSE IF op = "Sha256ProcessBlock"
    THEN {<<s, Ptr(DataSeg, 0)>> : s \in {Ptr(DataSeg, 0)} \cup Held(ShaSeg)}
    ELSE IF op = "SecpNew"
    THEN {u256(c[1]) \o u256(c[2]) :
             c \in {<<1, 0>>, <<2, 0>>, <<1, 1>>, <<BeyondModulus, 0>>}}
    ELSE IF op = "SecpGetPointFromX"
    THEN {Append(u256(c[1]), Felt(c[2])) :
             c \in {<<1, 0>>, <<1, 1>>, <<1, 2>>, <<OffCurve, 0>>, <<BeyondModulus, 0>>}}
    ELSE IF op = "SecpMul" THEN {<<h, Felt(2), Felt(0)>> : h \in Held(SecpSeg(curve))}
    ELSE IF op = "SecpAdd"
    THEN {<<h1, h2>> : h1 \in Held(SecpSeg(curve)), h2 \in Held(SecpSeg(curve))}
    ELSE IF op = "SecpGetXy" THEN {<<h>> : h \in Held(SecpSeg(curve))}
    ELSE {[i \in 1 .. Len(RequestLayout[op]) |->
             IF RequestLayout[op][i] = "felt" THEN Felt(6) ELSE Ptr(DataSeg, 2)]}

\* Gas the syscall needs in all, Keccak's rounds included.
GasNeeded(op, curve, fields) ==
    required_gas(op, curve)
      + (IF op = "Keccak"
         THEN ((fields[2].off - fields[1].off) \div KECCAK_FULL_RATE_IN_U64S)
                 * KECCAK_ROUND_COST_GAS_COST
         ELSE 0)

\* What the pointer answered to a request stands for.
Meaning(req) ==
    LET f == req.fields
        number(i) == pack(f[i].off, f[i + 1].off)
    IN  IF req.op = "SecpNew" THEN number(1)
        ELSE IF req.op = "SecpGetPointFromX" THEN WithParity(number(1), f[3].off)
        ELSE IF req.op = "SecpMul" THEN (handles[f[1]] * number(2)) % 3
        ELSE IF req.op = "SecpAdd" THEN (handles[f[1]] + handles[f[2]]) % 3
        ELSE IF f[1] \in DOMAIN handles THEN handles[f[1]] + 1 ELSE 1

\* Where the response to the last request is expected, and whether it is there.
ResponseAt == code_ptr + 2 + Len(request.fields)
ResponseLen == IF mem[ResponseAt + 1] = Felt(0) THEN 2 + ResponseSize[request.op]
                                                ELSE 4
ResponseThere ==
    /\ ResponseAt + 1 \in DOMAIN mem
    /\ ResponseAt .. (ResponseAt + ResponseLen - 1) \subseteq DOMAIN mem

\* The pointer in the response, if it has one the entry point keeps.
NewHandle ==
    LET cell(i) == mem[ResponseAt + i]
    IN  IF cell(1) # Felt(0) THEN {}
        ELSE IF request.op \in {"SecpNew", "SecpGetPointFromX"} /\ cell(2) = Felt(0)
             THEN {cell(3)}
        ELSE IF request.op \in {"SecpMul", "SecpAdd", "Sha256ProcessBlock"}
             THEN {cell(2)}
        ELSE {}

-----------------------------------------------------------------------------
NoRequest == [op |-> "GetExecutionInfo", curve |-> "", gas |-> 0, fields |-> <<>>]

Init ==
    /\ pc = "start"
    /\ mem = [o \in {} |-> Felt(0)]
    /\ code_ptr = 0
    /\ code_gas = 0
    /\ request = NoRequest
    /\ handles = [h \in {} |-> 0]
    /\ syscall_ptr = NoPtr
    /\ secp = [c \in Curve |-> [points |-> <<>>, segment |-> FALSE]]
    /\ sha256_segment = NoPtr
    /\ sha_mem = [o \in {} |-> 0]
    /\ asked = 0
    /\ entries = 0

\* The hint at the start of execute_transactions: ids.sha256_ptr is the start
\* of its segment.
set_sha256_segment ==
    /\ pc = "start"
    /\ pc' = "outside"
    /\ sha256_segment' = 0
    /\ UNCHANGED <<mem, code_ptr, code_gas, request, handles, syscall_ptr, secp,
                   sha_mem, asked, entries>>

\* The hint before an entry point runs: a fresh segment.
set_syscall_ptr ==
    /\ pc = "outside"
    /\ entries < MaxEntryPoints
    /\ pc' = "running"
    /\ syscall_ptr' = 0
    /\ code_gas' = InitialGas
    /\ entries' = entries + 1
    /\ UNCHANGED <<mem, code_ptr, request, handles, secp, sha256_segment,
                   sha_mem, asked>>

\* The entry point lays out selector k's request with a gas counter it has.
Ask(k, fields, gas) ==
    LET op == SyscallSelector[k][1]
        curve == SyscallSelector[k][2]
        cells == <<Felt(k), Felt(gas)>> \o fields
    IN  /\ pc = "running"
        /\ asked < MaxSyscalls
        /\ gas <= code_gas
        /\ gas >= GasNeeded(op, curve, fields) \/ op \in ShortOfGas
        /\ Consistent(mem, code_ptr, cells)
        /\ mem' = Written(mem, code_ptr, cells)
        /\ request' = [op |-> op, curve |-> curve, gas |-> gas, fields |-> fields]
        /\ code_gas' = gas
        /\ asked' = asked + 1
        /\ pc' = "asking"
        /\ UNCHANGED <<code_ptr, handles, syscall_ptr, secp, sha256_segment,
                       sha_mem, entries>>

\* The entry point asks for any syscall: with all its gas, with just enough,
\* or with too little.
AskAny ==
    \E k \in DOMAIN SyscallSelector :
        LET op == SyscallSelector[k][1]
            curve == SyscallSelector[k][2]
        IN  \E fields \in RequestFields(op, curve) :
                LET needed == GasNeeded(op, curve, fields)
                IN  \E gas \in {code_gas, needed, needed - 1} \cap Nat :
                        Ask(k, fields, gas)

Abort ==
    /\ pc' = "aborted"
    /\ UNCHANGED <<mem, code_ptr, code_gas, request, handles, syscall_ptr, secp,
                   sha256_segment, sha_mem, asked, entries>>

\* The execute_syscall hint, called with the entry point's pointer.  Its
\* selector has no handler, or one ending of the handler is written out.
execute_syscall ==
    /\ pc = "asking"
    /\ IF syscall_ptr # code_ptr \/ syscall_ptr \notin DOMAIN mem
       THEN Abort
       ELSE LET selector == SyscallSelector[mem[syscall_ptr].off]
            IN  IF selector[1] = "DelegateCall"
                THEN Abort
                ELSE \E end \in run_handler(selector[1], selector[2], mem,
                                            syscall_ptr + 1) :
                        LET cells == ResponseCells(end.outcome)
                        IN  IF \/ end.outcome.result = "error"
                               \/ ~Consistent(mem, end.ptr, cells)
                            THEN Abort
                            ELSE /\ mem' = Written(mem, end.ptr, cells)
                                 /\ syscall_ptr' = end.ptr + Len(cells)
                                 /\ secp' = end.outcome.secp
                                 /\ sha256_segment' = end.outcome.sha256_segment
                                 /\ sha_mem' = end.outcome.sha_mem
                                 /\ pc' = "answered"
                                 /\ UNCHANGED <<code_ptr, code_gas, request,
                                                handles, asked, entries>>

\* The entry point reads the response and steps over it.  Reading a cell that
\* was never written stops the VM.
ReadResponse ==
    /\ pc = "answered"
    /\ IF ~ResponseThere
       THEN Abort
       ELSE /\ code_gas' = mem[ResponseAt].off
            /\ code_ptr' = ResponseAt + ResponseLen
            /\ handles' = [h \in DOMAIN handles \cup NewHandle |->
                              IF h \in NewHandle THEN Meaning(request)
                                                 ELSE handles[h]]
            /\ pc' = "running"
            /\ UNCHANGED <<mem, request, syscall_ptr, secp, sha256_segment,
                           sha_mem, asked, entries>>

\* The entry point is over: the handler goes on with another segment.
LeaveEntryPoint ==
    /\ pc' = "outside"
    /\ mem' = [o \in {} |-> Felt(0)]
    /\ code_ptr' = 0
    /\ code_gas' = 0
    /\ request' = NoRequest
    /\ handles' = [h \in {} |-> 0]
    /\ UNCHANGED <<secp, sha256_segment, sha_mem, asked, entries>>

MutantValidateAndDiscard ==
    /\ pc = "running"
    /\ IF syscall_ptr = NoPtr \/ syscall_ptr # code_ptr
       THEN Abort
       ELSE LeaveEntryPoint /\ UNCHANGED syscall_ptr

\* The check_execution hint after the entry point, with the pointer it ended on.
validate_and_discard_syscall_ptr ==
    /\ pc = "running"
    /\ IF syscall_ptr = NoPtr \/ syscall_ptr # code_ptr
       THEN Abort
       ELSE LeaveEntryPoint /\ syscall_ptr' = NoPtr

Next ==
    \/ set_sha256_segment
    \/ set_syscall_ptr
    \/ AskAny
    \/ execute_syscall
    \/ ReadResponse
    \/ validate_and_discard_syscall_ptr

Spec == Init /\ [][Next]_vars

-----------------------------------------------------------------------------
(* Properties.                                                             *)

Cell == [seg : 0 .. 4, off : Nat]

\* Types of the state; the handler has a syscall pointer exactly while an
\* entry point runs (set_syscall_ptr, validate_and_discard_syscall_ptr).
TypeOK ==
    /\ pc \in {"start", "outside", "running", "asking", "answered", "aborted"}
    /\ DOMAIN mem \subseteq Nat /\ \A o \in DOMAIN mem : mem[o] \in Cell
    /\ code_ptr \in Nat /\ code_gas \in 0 .. GasModulus - 1
    /\ request.op \in DOMAIN RequestLayout
    /\ Len(request.fields) = Len(RequestLayout[request.op])
    /\ \A h \in DOMAIN handles : h \in Cell /\ handles[h] \in Nat
    /\ pc \in {"start", "outside"} => syscall_ptr = NoPtr
    /\ pc \in {"running", "asking", "answered"} => syscall_ptr \in Nat
    /\ \A c \in Curve : \A i \in DOMAIN secp[c].points : secp[c].points[i] \in Point
    /\ sha256_segment \in Nat \cup {NoPtr}
    /\ asked \in 0 .. MaxSyscalls /\ entries \in 0 .. MaxEntryPoints

\* Between syscalls the pointer kept by the handler is the one the entry point
\* goes on with, and the segment is filled up to it without a gap, whatever
\* mix of syscalls, failures and responses came before: neither the assert_eq
\* of execute_syscall nor "Bad syscall_ptr_end." can fail.
PointersInStep ==
    pc = "running" =>
        /\ syscall_ptr = code_ptr
        /\ DOMAIN mem = 0 .. code_ptr - 1

\* Requests the handler refuses: an unhandled selector, an address domain
\* other than 0, a parity that is not a boolean.
Refused(req) ==
    \/ req.op = "DelegateCall"
    \/ req.op \in {"StorageRead", "StorageWrite"} /\ req.fields[1] # Felt(0)
    \/ req.op = "SecpGetPointFromX" /\ req.fields[3] \notin {Felt(0), Felt(1)}

\* The hint errors and panics of execute_syscall, the secp handlers' unwraps
\* and unknown ids, a second write to a memory cell, a failed validation: none
\* stops the OS unless the last request is one the handler refuses.
AbortsOnlyOnRefusal == pc = "aborted" => Refused(request)

\* What a pointer the entry point holds leads to.
Referent(h) ==
    IF h.seg = ShaSeg THEN sha_mem[h.off]
    ELSE secp[IF h.seg = SecpSeg("k1") THEN "k1" ELSE "r1"].points[EcPointId(h) + 1]

\* A pointer handed out for a point or a SHA-256 state keeps leading to the
\* point or state it was handed out for, through every later syscall, on
\* either curve, in any entry point; the coordinates answered by SecpGetXy are
\* those of the point meant.
HandlesKeepTheirMeaning ==
    /\ \A h \in DOMAIN handles : Referent(h) = handles[h]
    /\ pc = "answered" /\ request.op = "SecpGetXy" =>
         <<mem[ResponseAt + 2], mem[ResponseAt + 3]>>
            = u256(handles[request.fields[1]])

\* The states answered by Sha256ProcessBlock lie in consecutive blocks of 32
\* cells, each 24 cells in, and the segment pointer stands behind the last:
\* the OS walks these blocks as an array when it checks them.
ShaBlocksTile ==
    \E n \in 0 .. MaxSyscalls :
        /\ DOMAIN sha_mem = {32 * i + 24 : i \in 0 .. n - 1}
        /\ sha256_segment # NoPtr => sha256_segment = 32 * n

\* An entry point's gas never grows: no subtraction of run_handler or of a
\* handler wraps around, and failures do not refund.
GasOnlySpent == [][pc # "outside" => code_gas' <= code_gas]_vars

\* A syscall without the gas it needs is answered with a failure, where the
\* entry point looks for the response ("Out of gas failure.",
\* syscall_handler_utils.rs).
OutOfGasAnswered ==
    LET short == ~Refused(request)
                   /\ request.gas < GasNeeded(request.op, request.curve, request.fields)
    IN  /\ pc = "aborted" => ~short
        /\ pc = "answered" /\ short =>
             /\ ResponseThere
             /\ mem[ResponseAt + 1] = Felt(1)
=============================================================================
