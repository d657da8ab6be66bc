----------------------- MODULE SyscallHandlerProofs -----------------------
(***************************************************************************)
(* Proofs about SyscallHandler, for any number of syscalls and of entry    *)
(* points, any gas below the modulus and every mix of selectors.           *)
(*                                                                         *)
(* The inductive invariant follows a syscall through its three stations.   *)
(* Between syscalls the two pointers agree and the segment is full up to   *)
(* them; while a syscall is asked for, its request lies behind the         *)
(* handler's pointer cell by cell, with gas enough; when it is answered,   *)
(* the response lies where the entry point looks for it, and a pointer in  *)
(* it leads to what the request asked for.                                 *)
(***************************************************************************)
EXTENDS SyscallHandler, SequenceTheorems, TLAPS

\* The run_handler branch for a syscall without its gas answers at the right
\* place only if the request has no fields (see OutOfGasAnswered).
GasSuffices == ShortOfGas \subseteq {"GetExecutionInfo"}

Handled == DOMAIN ReadLayout

\* Operations whose response carries a pointer that is kept, always or if
\* there is a point.
StateOp == "Sha256ProcessBlock"
OptionalOps == {"SecpNew", "SecpGetPointFromX"}
PointOps == OptionalOps \cup {"SecpMul", "SecpAdd"}

\* Segments are empty outside of entry points.
EmptyOutside ==
    pc \in {"start", "outside"} => code_ptr = 0 /\ DOMAIN mem = {}

\* The processors keep points, and a processor with a point has a segment.
SecpInStep ==
    /\ DOMAIN secp = Curve
    /\ \A c \in Curve :
          /\ secp[c].points \in Seq(Point)
          /\ secp[c].points # <<>> => secp[c].segment

\* One state for each block of 32 cells before the segment pointer, and at
\* least one syscall for each block.
ShaInStep ==
    /\ \A o \in DOMAIN sha_mem : sha_mem[o] \in Nat
    /\ \E n \in 0 .. asked :
          /\ n + (IF pc = "asking" THEN 1 ELSE 0) <= asked
          /\ DOMAIN sha_mem = {32 * i + 24 : i \in 0 .. n - 1}
          /\ sha256_segment = (IF pc = "start" THEN NoPtr ELSE 32 * n)
          /\ pc = "start" => n = 0

\* A pointer the entry point may hold: to a state, or to a point of a curve.
CurveOf(h) == IF h.seg = SecpSeg("k1") THEN "k1" ELSE "r1"
Leads(h) ==
    /\ h \in Cell
    /\ \/ h.seg = ShaSeg /\ h.off \in DOMAIN sha_mem
       \/ \E c \in Curve : \E id \in 0 .. Len(secp[c].points) - 1 :
             h = EcPointPtr(c, id)

HandlesLead ==
    \A h \in DOMAIN handles : Leads(h) /\ Referent(h) = handles[h]

\* The request lies in the segment as the entry point laid it out.
RequestThere ==
    pc = "asking" =>
        /\ syscall_ptr = code_ptr
        /\ DOMAIN mem = 0 .. code_ptr + 1 + Len(request.fields)
        /\ \E k \in DOMAIN SyscallSelector :
              /\ mem[code_ptr] = Felt(k)
              /\ SyscallSelector[k] = <<request.op, request.curve>>
        /\ request.gas = code_gas
        /\ mem[code_ptr + 1] = Felt(request.gas)
        /\ \A i \in 1 .. Len(request.fields) :
              mem[code_ptr + 1 + i] = request.fields[i]
        /\ request.fields \in RequestFields(request.op, request.curve)
        /\ \/ request.gas >= GasNeeded(request.op, request.curve, request.fields)
           \/ request.op \in ShortOfGas

\* The response lies where the entry point looks, and says what it should.
AnswerThere ==
    pc = "answered" =>
        /\ ResponseAt + 1 \in DOMAIN mem
        /\ syscall_ptr = ResponseAt + ResponseLen
        /\ DOMAIN mem = 0 .. syscall_ptr - 1
        /\ mem[ResponseAt].off <= code_gas
        /\ \A h \in NewHandle :
              /\ Leads(h)
              /\ Referent(h) = Meaning(request)
              /\ Meaning(request) \in Nat

\* The coordinates answered are those of the point meant.
CoordinatesMeant ==
    pc = "answered" /\ request.op = "SecpGetXy" =>
        <<mem[ResponseAt + 2], mem[ResponseAt + 3]>>
            = u256(handles[request.fields[1]])

IInv ==
    /\ TypeOK
    /\ EmptyOutside
    /\ SecpInStep
    /\ ShaInStep
    /\ HandlesLead
    /\ PointersInStep
    /\ RequestThere
    /\ AnswerThere
    /\ CoordinatesMeant
    /\ AbortsOnlyOnRefusal

-----------------------------------------------------------------------------
(* Tables and arithmetic.                                                  *)

LEMMA SmallModulo == \A x, m \in Nat : x < m => x % m = x
  OBVIOUS

LEMMA ModuloThree == \A x \in Nat : x % 3 \in Point
  BY DEF Point

LEMMA PointIds == \A id \in Nat : (id * 6) \div 6 = id
  OBVIOUS

\* A selector is a known operation, on a curve if it is one of secp.
LEMMA SelectorLemma ==
    /\ DOMAIN SyscallSelector = 1 .. 24
    /\ \A k \in 1 .. 24 :
          /\ SyscallSelector[k][1] \in DOMAIN RequestLayout
          /\ SyscallSelector[k][1] \in SecpOps => SyscallSelector[k][2] \in Curve
  BY DEF SyscallSelector, RequestLayout, SecpOps, Curve

\* Every operation but DelegateCall has a handler, which reads as many cells
\* as the entry point has filled in.
LEMMA LayoutLemma ==
    \A op \in DOMAIN RequestLayout :
        /\ Len(RequestLayout[op]) \in Nat
        /\ ResponseSize[op] \in Nat
        /\ op # "DelegateCall" =>
              /\ op \in Handled
              /\ Len(ReadLayout[op]) = Len(RequestLayout[op])
  BY DEF RequestLayout, ReadLayout, ResponseSize, Handled

\* What a handler does not decode: calls, deployments, events, messages.
SilentOps == {"CallContract", "LibraryCall", "LibraryCallL1Handler", "Deploy",
              "EmitEvent", "ReplaceClass", "SendMessageToL1", "GetExecutionInfo"}

LEMMA SilentLemma ==
    ASSUME NEW op \in SilentOps, NEW i \in 1 .. Len(ReadLayout[op])
    PROVE  ReadLayout[op][i] = "skip"
<1>1. ReadLayout[op] \in {<<>>, <<"skip">>, <<"skip", "skip", "skip">>,
                          <<"skip", "skip", "skip", "skip">>,
                          <<"skip", "skip", "skip", "skip", "skip">>}
  BY DEF SilentOps, ReadLayout
<1> QED BY <1>1

LEMMA CostLemma ==
    ASSUME NEW op \in DOMAIN RequestLayout, NEW curve,
           op \in SecpOps => curve \in Curve
    PROVE  required_gas(op, curve) \in Nat
<1> USE DEF SecpCost, STEP_GAS_COST, RANGE_CHECK_GAS_COST, MEMORY_HOLE_GAS_COST,
            SYSCALL_BASE_GAS_COST, ENTRY_POINT_GAS_COST
<1>1. CASE op \in SecpOps
  BY <1>1 DEF required_gas, syscall_gas_cost, SecpGasCost, SecpOps, Curve
<1>2. CASE op \notin SecpOps
  BY <1>2 DEF required_gas, syscall_gas_cost, PlainGasCost, SecpOps, RequestLayout
<1> QED BY <1>1, <1>2

-----------------------------------------------------------------------------
(* Sequences.                                                              *)

LEMMA FunctionIsSeq ==
    ASSUME NEW S, NEW n \in Nat, NEW f, f \in [1 .. n -> S]
    PROVE  f \in Seq(S) /\ Len(f) = n
  BY SeqDef

\* Two cells in front of a sequence: a selector and a gas counter in front of
\* the fields, a gas counter and a flag in front of a response.
LEMMA PairPrefix ==
    ASSUME NEW S, NEW a \in S, NEW b \in S, NEW s \in Seq(S)
    PROVE  LET c == <<a, b>> \o s
           IN  /\ c \in Seq(S)
               /\ Len(c) = 2 + Len(s)
               /\ c[1] = a /\ c[2] = b
               /\ \A i \in 1 .. Len(s) : c[i + 2] = s[i]
<1> DEFINE p == <<a, b>>
           c == p \o s
<1>1. p \in Seq(S) /\ Len(p) = 2 /\ p[1] = a /\ p[2] = b
  OBVIOUS
<1> HIDE DEF p
<1>2. /\ c \in Seq(S)
      /\ Len(c) = Len(p) + Len(s)
      /\ \A i \in 1 .. Len(p) + Len(s) :
            c[i] = IF i <= Len(p) THEN p[i] ELSE s[i - Len(p)]
  BY <1>1, ConcatProperties
<1>3. Len(s) \in Nat
  BY LenProperties
<1> HIDE DEF c
<1>4. /\ c \in Seq(S) /\ Len(c) = 2 + Len(s) /\ c[1] = a /\ c[2] = b
      /\ \A i \in 1 .. Len(s) : c[i + 2] = s[i]
  BY <1>1, <1>2, <1>3
<1> QED BY <1>4 DEF c, p

-----------------------------------------------------------------------------
(* Requests.                                                               *)

LEMMA HeldLemma ==
    ASSUME HandlesLead, NEW seg, NEW h \in Held(seg)
    PROVE  h \in Cell /\ h \in DOMAIN handles /\ Kind(h) = "ptr"
<1>1. h \in DOMAIN handles /\ Leads(h)
  BY DEF Held, HandlesLead
<1> QED BY <1>1 DEF Leads, Kind, EcPointPtr, Ptr, SecpSeg, ShaSeg

\* The fields of a request are cells of the kinds its layout names.
LEMMA FieldsLemma ==
    ASSUME HandlesLead, NEW op \in DOMAIN RequestLayout, NEW curve,
           NEW fields \in RequestFields(op, curve)
    PROVE  /\ fields \in Seq(Cell)
           /\ Len(fields) = Len(RequestLayout[op])
           /\ \A i \in 1 .. Len(fields) : Kind(fields[i]) = RequestLayout[op][i]
<1> USE DEF Cell, Felt, Ptr, Kind, DataSeg
<1>1. CASE op \in {"StorageRead", "StorageWrite"}
  <2>1. RequestLayout[op] \in {<<"felt", "felt">>, <<"felt", "felt", "felt">>}
    BY <1>1 DEF RequestLayout
  <2>2. PICK d \in {Felt(0), Felt(1)} :
           fields = [i \in 1 .. Len(RequestLayout[op]) |-> IF i = 1 THEN d ELSE Felt(6)]
    BY <1>1 DEF RequestFields
  <2>3. PICK n \in {2, 3} : n = Len(RequestLayout[op])
    BY <2>1
  <2>4. fields \in [1 .. n -> Cell]
    BY <2>2, <2>3
  <2>5. fields \in Seq(Cell) /\ Len(fields) = n
    BY <2>4, FunctionIsSeq
  <2>6. \A i \in 1 .. n : Kind(fields[i]) = "felt"
    BY <2>2, <2>3
  <2>7. \A i \in 1 .. n : RequestLayout[op][i] = "felt"
    BY <2>1, <2>3
  <2> QED BY <2>3, <2>5, <2>6, <2>7
<1>2. CASE op = "Keccak"
  <2>1. RequestLayout[op] = <<"ptr", "ptr">>
    BY <1>2 DEF RequestLayout
  <2>2. PICK n \in {0, 1, KECCAK_FULL_RATE_IN_U64S} :
           fields = <<Ptr(DataSeg, 0), Ptr(DataSeg, n)>>
    BY <1>2 DEF RequestFields
  <2> QED BY <2>1, <2>2 DEF KECCAK_FULL_RATE_IN_U64S
<1>3. CASE op = "Sha256ProcessBlock"
  <2>1. RequestLayout[op] = <<"ptr", "ptr">>
    BY <1>3 DEF RequestLayout
  <2>2. PICK h \in {Ptr(DataSeg, 0)} \cup Held(ShaSeg) :
           fields = <<h, Ptr(DataSeg, 0)>>
    BY <1>3 DEF RequestFields
  <2>3. h \in Cell /\ Kind(h) = "ptr"
    BY HeldLemma
  <2> QED BY <2>1, <2>2, <2>3
<1>4. CASE op = "SecpNew"
  <2>1. RequestLayout[op] = <<"felt", "felt", "felt", "felt">>
    BY <1>4 DEF RequestLayout
  <2>2. \E c \in {<<1, 0>>, <<2, 0>>, <<1, 1>>, <<BeyondModulus, 0>>} :
           fields = u256(c[1]) \o u256(c[2])
    <3> HIDE DEF Cell, Felt, Ptr, Kind, DataSeg
    <3>1. op \notin {"StorageRead", "StorageWrite"}
          /\ op # "Keccak" /\ op # "Sha256ProcessBlock"
      BY <1>4
    <3> QED BY <1>4, <3>1, SMTT(30) DEF RequestFields
  <2>3. PICK c \in {<<1, 0>>, <<2, 0>>, <<1, 1>>, <<BeyondModulus, 0>>} :
           fields = u256(c[1]) \o u256(c[2])
    BY <2>2
  <2> QED BY <2>1, <2>3 DEF BeyondModulus, u256, LIMB
<1>5. CASE op = "SecpGetPointFromX"
  <2>1. RequestLayout[op] = <<"felt", "felt", "felt">>
    BY <1>5 DEF RequestLayout
  <2>2. PICK c \in {<<1, 0>>, <<1, 1>>, <<1, 2>>, <<OffCurve, 0>>,
                    <<BeyondModulus, 0>>} :
           fields = Append(u256(c[1]), Felt(c[2]))
    BY <1>5 DEF RequestFields, u256, LIMB
  <2> QED BY <2>1, <2>2 DEF BeyondModulus, OffCurve, u256, LIMB
<1>6. CASE op = "SecpMul"
  <2>1. RequestLayout[op] = <<"ptr", "felt", "felt">>
    BY <1>6 DEF RequestLayout
  <2>2. PICK h \in Held(SecpSeg(curve)) : fields = <<h, Felt(2), Felt(0)>>
    BY <1>6 DEF RequestFields
  <2>3. h \in Cell /\ Kind(h) = "ptr"
    BY HeldLemma
  <2> QED BY <2>1, <2>2, <2>3
<1>7. CASE op = "SecpAdd"
  <2>1. RequestLayout[op] = <<"ptr", "ptr">>
    BY <1>7 DEF RequestLayout
  <2>2. PICK h1 \in Held(SecpSeg(curve)), h2 \in Held(SecpSeg(curve)) :
           fields = <<h1, h2>>
    BY <1>7 DEF RequestFields
  <2>3. h1 \in Cell /\ Kind(h1) = "ptr" /\ h2 \in Cell /\ Kind(h2) = "ptr"
    BY HeldLemma
  <2> QED BY <2>1, <2>2, <2>3
<1>8. CASE op = "SecpGetXy"
  <2>1. RequestLayout[op] = <<"ptr">>
    BY <1>8 DEF RequestLayout
  <2>2. PICK h \in Held(SecpSeg(curve)) : fields = <<h>>
    BY <1>8 DEF RequestFields
  <2>3. h \in Cell /\ Kind(h) = "ptr"
    BY HeldLemma
  <2> QED BY <2>1, <2>2, <2>3
<1>9. CASE op \notin SecpOps \cup {"StorageRead", "StorageWrite", "Keccak",
                                   "Sha256ProcessBlock"}
  <2>1. RequestLayout[op] \in {<<"felt", "felt", "ptr", "ptr">>,
                               <<"felt", "felt", "ptr", "ptr", "felt">>,
                               <<"ptr", "ptr", "ptr", "ptr">>, <<"felt">>, <<>>,
                               <<"felt", "ptr", "ptr">>}
    BY <1>9 DEF RequestLayout, SecpOps
  <2>2. PICK n \in Nat : n = Len(RequestLayout[op])
    BY <2>1
  <2>3. \A i \in 1 .. n : RequestLayout[op][i] \in {"felt", "ptr"}
    BY <2>1, <2>2
  <2>4. fields = [i \in 1 .. n |->
                    IF RequestLayout[op][i] = "felt" THEN Felt(6) ELSE Ptr(DataSeg, 2)]
    BY <1>9, <2>2 DEF RequestFields, SecpOps
  <2>5. fields \in [1 .. n -> Cell]
    BY <2>4
  <2>6. fields \in Seq(Cell) /\ Len(fields) = n
    BY <2>5, FunctionIsSeq
  <2> QED BY <2>2, <2>3, <2>4, <2>6
<1> QED BY <1>1, <1>2, <1>3, <1>4, <1>5, <1>6, <1>7, <1>8, <1>9 DEF SecpOps

\* The request as a handler sees it, from its first field at p.
FieldsAt(m, p) ==
    \A i \in 1 .. Len(request.fields) :
        p + i - 1 \in DOMAIN m /\ m[p + i - 1] = request.fields[i]

\* What is known of the request while it is handled.
Requested ==
    /\ HandlesLead
    /\ request.op \in DOMAIN RequestLayout
    /\ request.op \in SecpOps => request.curve \in Curve
    /\ request.fields \in RequestFields(request.op, request.curve)
    /\ ~Refused(request)

\* A handler decodes a cell as what the entry point has put there.
LEMMA KindsLemma ==
    ASSUME NEW op \in Handled, NEW i \in 1 .. Len(ReadLayout[op])
    PROVE  ReadLayout[op][i] = "skip" \/ ReadLayout[op][i] = RequestLayout[op][i]
<1>1. CASE op \in SilentOps
  BY <1>1, SilentLemma
<1>2. CASE op \in {"StorageRead", "StorageWrite"}
  <2>1. \/ ReadLayout[op] = <<"felt", "skip">> /\ RequestLayout[op] = <<"felt", "felt">>
        \/ /\ ReadLayout[op] = <<"felt", "skip", "skip">>
           /\ RequestLayout[op] = <<"felt", "felt", "felt">>
    BY <1>2 DEF ReadLayout, RequestLayout
  <2> QED BY <2>1
<1>3. CASE op \notin SilentOps \cup {"StorageRead", "StorageWrite"}
  <2>1. op \in SecpOps \cup {"GetBlockHash", "Keccak", "Sha256ProcessBlock"}
    BY <1>3 DEF ReadLayout, SilentOps, Handled, SecpOps
  <2>2. \/ ReadLayout[op] = <<"felt">> /\ RequestLayout[op] = <<"felt">>
        \/ ReadLayout[op] = <<"ptr">> /\ RequestLayout[op] = <<"ptr">>
        \/ ReadLayout[op] = <<"ptr", "ptr">> /\ RequestLayout[op] = <<"ptr", "ptr">>
        \/ /\ ReadLayout[op] = <<"felt", "felt", "felt">>
           /\ RequestLayout[op] = <<"felt", "felt", "felt">>
        \/ /\ ReadLayout[op] = <<"ptr", "felt", "felt">>
           /\ RequestLayout[op] = <<"ptr", "felt", "felt">>
        \/ /\ ReadLayout[op] = <<"felt", "felt", "felt", "felt">>
           /\ RequestLayout[op] = <<"felt", "felt", "felt", "felt">>
    BY <2>1 DEF ReadLayout, RequestLayout, SecpOps
  <2> QED BY <2>2
<1> QED BY <1>1, <1>2, <1>3

\* A request that is not refused can be read.
LEMMA CanReadLemma ==
    ASSUME Requested, NEW m, NEW p \in Nat, FieldsAt(m, p)
    PROVE  CanRead(request.op, m, p)
<1> DEFINE op == request.op
           f == request.fields
<1>1. op \in Handled /\ Len(ReadLayout[op]) = Len(RequestLayout[op])
  BY LayoutLemma DEF Requested, Refused
<1>2. /\ f \in Seq(Cell) /\ Len(f) = Len(RequestLayout[op])
      /\ \A i \in 1 .. Len(f) : Kind(f[i]) = RequestLayout[op][i]
  BY FieldsLemma DEF Requested
<1>3. ASSUME NEW i \in 1 .. Len(ReadLayout[op])
      PROVE  \/ ReadLayout[op][i] = "skip"
             \/ p + i - 1 \in DOMAIN m /\ Kind(m[p + i - 1]) = ReadLayout[op][i]
  BY <1>1, <1>2, KindsLemma DEF FieldsAt
<1>4. CASE op \in {"StorageRead", "StorageWrite"}
  <2>1. Len(RequestLayout[op]) \in {2, 3}
    BY <1>4 DEF RequestLayout
  <2>2. m[p + 1 - 1] = f[1]
    BY <1>2, <2>1 DEF FieldsAt
  <2>3. f[1] = Felt(0)
    BY <1>4 DEF Requested, Refused
  <2>4. m[p] = Felt(0)
    BY <2>2, <2>3
  <2> QED BY <1>3, <1>4, <2>4 DEF CanRead
<1>5. CASE op = "SecpGetPointFromX"
  <2>1. Len(RequestLayout[op]) = 3
    BY <1>5 DEF RequestLayout
  <2>2. m[p + 3 - 1] = f[3]
    BY <1>2, <2>1 DEF FieldsAt
  <2>3. f[3] \in {Felt(0), Felt(1)}
    BY <1>5 DEF Requested, Refused
  <2>4. m[p + 2] \in {Felt(0), Felt(1)}
    BY <2>2, <2>3
  <2> QED BY <1>3, <1>5, <2>4 DEF CanRead
<1> QED BY <1>3, <1>4, <1>5 DEF CanRead

-----------------------------------------------------------------------------
(* Outcomes: what a handler may make of a request.                         *)

\* The helper is left alone; no pointer is handed out.
Keeps(o) ==
    /\ o.secp = secp /\ o.sha256_segment = sha256_segment /\ o.sha_mem = sha_mem
    /\ o.result = "response" =>
          /\ request.op \notin {"SecpMul", "SecpAdd", StateOp}
          /\ request.op \in OptionalOps => o.cells[1] = Felt(1)
    /\ request.op = "SecpGetXy" =>
          /\ o.result = "response"
          /\ <<o.cells[1], o.cells[2]>> = u256(handles[request.fields[1]])

\* The state asked for is written to the next block of the SHA-256 segment.
AddsState(o) ==
    /\ o.result = "response" /\ request.op = StateOp
    /\ o.secp = secp
    /\ o.cells[1] = Ptr(ShaSeg, sha256_segment + 24)
    /\ o.sha256_segment = sha256_segment + 32
    /\ o.sha_mem = Written(sha_mem, sha256_segment + 24, <<Meaning(request)>>)
    /\ Meaning(request) \in Nat

\* The point asked for is added to its curve.
AddsPoint(o) ==
    LET id == Len(secp[request.curve].points)
    IN  /\ o.result = "response" /\ request.op \in PointOps
        /\ o.sha256_segment = sha256_segment /\ o.sha_mem = sha_mem
        /\ o.secp = Allocate(request.curve, Meaning(request))
        /\ Meaning(request) \in Point
        /\ IF request.op \in OptionalOps
           THEN o.cells[1] = Felt(0) /\ o.cells[2] = EcPointPtr(request.curve, id)
           ELSE o.cells[1] = EcPointPtr(request.curve, id)

Sound(o) ==
    /\ o.result \in {"failure", "response"}
    /\ o.gas \in 0 .. request.gas
    /\ o.result = "response" =>
          o.cells \in Seq(Cell) /\ Len(o.cells) = ResponseSize[request.op]
    /\ Keeps(o) \/ AddsState(o) \/ AddsPoint(o)

LEMMA CellLemma ==
    ASSUME NEW n \in Nat
    PROVE  Felt(n) \in Cell /\ \A seg \in 0 .. 4 : Ptr(seg, n) \in Cell
  BY DEF Felt, Ptr, Cell

LEMMA FewCells ==
    ASSUME NEW a \in Cell, NEW b \in Cell, NEW c \in Cell, NEW d \in Cell
    PROVE  /\ <<a>> \in Seq(Cell) /\ Len(<<a>>) = 1
           /\ <<a, b>> \in Seq(Cell) /\ Len(<<a, b>>) = 2
           /\ <<a, b, c>> \in Seq(Cell) /\ Len(<<a, b, c>>) = 3
           /\ <<a, b, c, d>> \in Seq(Cell) /\ Len(<<a, b, c, d>>) = 4
  OBVIOUS

LEMMA FailureSound ==
    ASSUME NEW gas \in 0 .. request.gas, request.op # "SecpGetXy"
    PROVE  Sound(Plain("failure", gas, <<>>))
  BY DEF Sound, Plain, Outcome, Keeps

\* A response that hands out no pointer.
LEMMA PlainSound ==
    ASSUME NEW gas \in 0 .. request.gas, NEW cells \in Seq(Cell),
           Len(cells) = ResponseSize[request.op],
           request.op \notin SecpOps \cup {StateOp}
    PROVE  Sound(Plain("response", gas, cells))
  BY DEF Sound, Plain, Outcome, Keeps, OptionalOps, SecpOps

LEMMA CallsSound ==
    ASSUME request.op \in {"CallContract", "LibraryCall", "LibraryCallL1Handler", "Deploy"},
           request.gas \in 0 .. GasModulus - 1,
           NEW gas \in 0 .. request.gas, NEW o \in CallOutcomes(request.op, gas)
    PROVE  Sound(o)
<1> DEFINE op == request.op
           retdata == <<Ptr(DataSeg, 0), Ptr(DataSeg, 1)>>
           answers == IF op = "Deploy"
                      THEN {<<Felt(7)>> \o retdata, <<Felt(7), Felt(0), Felt(0)>>}
                      ELSE {retdata}
<1>5. /\ Felt(7) \in Cell /\ Felt(0) \in Cell
      /\ Ptr(DataSeg, 0) \in Cell /\ Ptr(DataSeg, 1) \in Cell
  BY CellLemma DEF DataSeg
<1>1. PICK consumed \in {0, gas} :
         o \in {Plain("failure", (gas - consumed) % GasModulus, <<>>)}
                  \cup {Plain("response", (gas - consumed) % GasModulus, cells) :
                          cells \in answers}
  BY DEF CallOutcomes
<1>2. (gas - consumed) % GasModulus \in 0 .. request.gas
  <2>1. gas - consumed \in Nat /\ gas - consumed < GasModulus /\ GasModulus \in Nat
    BY SyscallHandlerAssumption
  <2> QED BY <2>1, SmallModulo
<1>3. ASSUME NEW cells \in answers
      PROVE  cells \in Seq(Cell) /\ Len(cells) = ResponseSize[op]
  <2>1. CASE op = "Deploy"
    <3>1. ResponseSize[op] = 3
      BY <2>1 DEF ResponseSize
    <3>2. cells \in {<<Felt(7), Ptr(DataSeg, 0), Ptr(DataSeg, 1)>>,
                     <<Felt(7), Felt(0), Felt(0)>>}
      BY <2>1
    <3>3. PICK b \in Cell, c \in Cell : cells = <<Felt(7), b, c>>
      BY <1>5, <3>2
    <3> QED BY <1>5, <3>1, <3>3, FewCells
  <2>2. CASE op # "Deploy"
    <3>1. ResponseSize[op] = 2
      BY <2>2 DEF ResponseSize
    <3> QED BY <1>5, <2>2, <3>1, FewCells
  <2> QED BY <2>1, <2>2
<1>4. op \notin SecpOps \cup {StateOp}
  BY DEF SecpOps, StateOp
<1> HIDE DEF answers
<1>6. op # "SecpGetXy"
  OBVIOUS
<1> QED BY <1>1, <1>2, <1>3, <1>4, <1>6, FailureSound, PlainSound

\* Storage, events, messages, classes, blocks and the execution info.
LEMMA StateSound ==
    ASSUME request.op \in {"EmitEvent", "ReplaceClass", "SendMessageToL1",
                           "StorageWrite", "GetBlockHash", "StorageRead",
                           "GetExecutionInfo"},
           NEW gas \in 0 .. request.gas, NEW m, NEW p,
           NEW o \in Execute(request.op, request.curve, gas, m, p)
    PROVE  Sound(o)
<1> DEFINE op == request.op
<1>1. op \notin SecpOps \cup {StateOp}
  BY DEF SecpOps, StateOp
<1>2. CASE op \in {"EmitEvent", "ReplaceClass", "SendMessageToL1", "StorageWrite"}
  <2>1. o = Plain("response", gas, <<>>)
    BY <1>2 DEF Execute
  <2>2. ResponseSize[op] = 0
    BY <1>2 DEF ResponseSize
  <2>3. <<>> \in Seq(Cell) /\ Len(<<>>) = 0
    OBVIOUS
  <2> QED BY <1>1, <2>1, <2>2, <2>3, PlainSound
<1>3. CASE op \in {"GetBlockHash", "StorageRead"}
  <2>1. o = Plain("response", gas, <<Felt(5)>>)
    BY <1>3 DEF Execute
  <2>2. ResponseSize[op] = 1
    BY <1>3 DEF ResponseSize
  <2>3. <<Felt(5)>> \in Seq(Cell) /\ Len(<<Felt(5)>>) = 1
    BY CellLemma, FewCells
  <2> QED BY <1>1, <2>1, <2>2, <2>3, PlainSound
<1>4. CASE op = "GetExecutionInfo"
  <2>1. o = Plain("response", gas, <<Ptr(DataSeg, 3)>>)
    BY <1>4 DEF Execute
  <2>2. ResponseSize[op] = 1
    BY <1>4 DEF ResponseSize
  <2>3. <<Ptr(DataSeg, 3)>> \in Seq(Cell) /\ Len(<<Ptr(DataSeg, 3)>>) = 1
    BY CellLemma, FewCells DEF DataSeg
  <2> QED BY <1>1, <2>1, <2>2, <2>3, PlainSound
<1> QED BY <1>2, <1>3, <1>4

LEMMA KeccakSound ==
    ASSUME Requested, request.op = "Keccak", request.gas \in Nat,
           NEW gas \in 0 .. request.gas,
           gas >= ((request.fields[2].off - request.fields[1].off)
                     \div KECCAK_FULL_RATE_IN_U64S) * KECCAK_ROUND_COST_GAS_COST,
           NEW m, NEW p \in Nat, FieldsAt(m, p)
    PROVE  Sound(KeccakOutcome(gas, m, p))
<1>1. PICK n \in {0, 1, 17} : request.fields = <<Ptr(DataSeg, 0), Ptr(DataSeg, n)>>
  BY DEF Requested, RequestFields, KECCAK_FULL_RATE_IN_U64S
<1>2. m[p + 1 - 1] = Ptr(DataSeg, 0) /\ m[p + 2 - 1] = Ptr(DataSeg, n)
  BY <1>1 DEF FieldsAt
<1>3. m[p].off = 0 /\ m[p + 1].off = n
  BY <1>2 DEF Ptr
<1>4. request.fields[2].off - request.fields[1].off = n
  BY <1>1 DEF Ptr
<1> DEFINE cost == (n \div 17) * KECCAK_ROUND_COST_GAS_COST
<1>5. cost \in 0 .. gas
  BY <1>4 DEF KECCAK_ROUND_COST_GAS_COST, KECCAK_FULL_RATE_IN_U64S
<1>6. KeccakOutcome(gas, m, p) \in {Plain("failure", gas, <<>>),
                                    Plain("response", gas - cost, <<Felt(8), Felt(9)>>)}
  BY <1>3, <1>5 DEF KeccakOutcome, KECCAK_FULL_RATE_IN_U64S
<1> HIDE DEF cost
<1>7. gas - cost \in 0 .. request.gas
  BY <1>5
<1>8. <<Felt(8), Felt(9)>> \in Seq(Cell) /\ Len(<<Felt(8), Felt(9)>>) = ResponseSize[request.op]
  BY CellLemma, FewCells DEF ResponseSize
<1>9. request.op \notin SecpOps \cup {StateOp}
  BY DEF SecpOps, StateOp
<1> QED BY <1>6, <1>7, <1>8, <1>9, FailureSound, PlainSound

LEMMA PointSegments ==
    ASSUME NEW c, NEW id
    PROVE  EcPointPtr(c, id).seg = SecpSeg(c) /\ SecpSeg(c) \in {3, 4}
  BY DEF EcPointPtr, Ptr, SecpSeg

\* A block of the SHA-256 segment that has not been written yet.
LEMMA NextBlock ==
    ASSUME NEW n \in Nat
    PROVE  32 * n + 24 \notin {32 * i + 24 : i \in 0 .. n - 1}
  OBVIOUS

LEMMA ShaSound ==
    ASSUME Requested, ShaInStep, pc = "asking", asked \in Nat, request.op = StateOp,
           NEW gas \in 0 .. request.gas, NEW m, NEW p \in Nat, FieldsAt(m, p)
    PROVE  Sound(ShaOutcome(gas, m, p))
<1> DEFINE f == request.fields
           prev == IF m[p].seg = ShaSeg THEN sha_mem[m[p].off] ELSE 0
           out == sha256_segment + 24
<1>1. PICK n \in 0 .. asked : /\ DOMAIN sha_mem = {32 * i + 24 : i \in 0 .. n - 1}
                              /\ sha256_segment = 32 * n
  BY DEF ShaInStep
<1>2. sha256_segment \in Nat /\ sha256_segment # NoPtr /\ out \notin DOMAIN sha_mem
  BY <1>1, NextBlock DEF NoPtr
<1>3. PICK h \in {Ptr(DataSeg, 0)} \cup Held(ShaSeg) : f = <<h, Ptr(DataSeg, 0)>>
  BY DEF Requested, RequestFields, StateOp
<1>4. m[p] = h
  <2>1. m[p + 1 - 1] = f[1]
    BY <1>3 DEF FieldsAt
  <2> QED BY <1>3, <2>1
<1>5. prev \in Nat /\ Meaning(request) = prev + 1
  <2>1. f[1] = h
    BY <1>3
  <2>2. Meaning(request) = IF h \in DOMAIN handles THEN handles[h] + 1 ELSE 1
    BY <2>1 DEF Meaning, StateOp
  <2>3. CASE h \in Held(ShaSeg)
    <3>1. h \in DOMAIN handles /\ h.seg = ShaSeg /\ Leads(h) /\ handles[h] = sha_mem[h.off]
      BY <2>3 DEF Held, HandlesLead, Requested, Referent
    <3>2. h.off \in DOMAIN sha_mem
      BY <3>1 DEF Leads, EcPointPtr, Ptr, SecpSeg, ShaSeg
    <3>3. sha_mem[h.off] \in Nat
      BY <3>2 DEF ShaInStep
    <3> QED BY <1>4, <2>2, <3>1, <3>3
  <2>4. CASE h = Ptr(DataSeg, 0)
    <3>1. ~Leads(h)
      <4>1. h.seg = 1
        BY <2>4 DEF Ptr, DataSeg
      <4> QED BY <4>1, PointSegments DEF Leads, ShaSeg
    <3>2. h \notin DOMAIN handles
      BY <3>1 DEF HandlesLead, Requested
    <3>3. h.seg # ShaSeg
      BY <2>4 DEF Ptr, ShaSeg, DataSeg
    <3> QED BY <1>4, <2>2, <3>2, <3>3
  <2> QED BY <2>3, <2>4
<1> DEFINE o == Outcome("response", gas, <<Ptr(ShaSeg, out)>>, secp,
                        sha256_segment + 32, Written(sha_mem, out, <<prev + 1>>))
<1>6. ShaOutcome(gas, m, p) = o
  <2>1. Consistent(sha_mem, out, <<prev + 1>>)
    BY <1>2 DEF Consistent
  <2>2. sha256_segment + 24 + 8 = sha256_segment + 32
    BY <1>2
  <2> QED BY <1>2, <2>1, <2>2 DEF ShaOutcome, Advanced
<1>7. AddsState(o)
  BY <1>5 DEF AddsState, Outcome
<1>8. o.cells \in Seq(Cell) /\ Len(o.cells) = ResponseSize[request.op]
  <2>1. Ptr(ShaSeg, out) \in Cell
    BY <1>2, CellLemma DEF ShaSeg
  <2> QED BY <2>1, FewCells DEF Outcome, ResponseSize, StateOp
<1> QED BY <1>6, <1>7, <1>8 DEF Sound, Outcome

\* A pointer to a point leads to a point the processor knows.
LEMMA PointLemma ==
    ASSUME HandlesLead, SecpInStep, NEW c \in Curve, NEW h \in Held(SecpSeg(c))
    PROVE  /\ EcPointId(h) \in Nat
           /\ EcPointId(h) < Len(secp[c].points)
           /\ secp[c].segment
           /\ secp[c].points[EcPointId(h) + 1] = handles[h]
           /\ handles[h] \in Point
<1>1. h \in DOMAIN handles /\ h.seg = SecpSeg(c) /\ Leads(h) /\ Referent(h) = handles[h]
  BY DEF Held, HandlesLead
<1>2. secp[c].points \in Seq(Point) /\ Len(secp[c].points) \in Nat
  BY LenProperties DEF SecpInStep
<1>3. PICK d \in Curve : \E i \in 0 .. Len(secp[d].points) - 1 : h = EcPointPtr(d, i)
  BY <1>1, PointSegments DEF Leads, ShaSeg
<1>4. d = c
  <2>1. SecpSeg(d) = SecpSeg(c)
    BY <1>1, <1>3, PointSegments
  <2> QED BY <2>1 DEF SecpSeg, Curve
<1>5. PICK id \in 0 .. Len(secp[c].points) - 1 : h = EcPointPtr(c, id)
  BY <1>3, <1>4
<1>6. id \in Nat /\ id < Len(secp[c].points)
  BY <1>2, <1>5
<1>7. EcPointId(h) = id
  <2>1. h.off = id * 6
    BY <1>5 DEF EcPointPtr, Ptr, EcCoordinate_size
  <2> QED BY <1>6, <2>1, PointIds DEF EcPointId, EcCoordinate_size
<1>8. secp[c].points # <<>>
  BY <1>2, <1>6
<1>9. Referent(h) = secp[c].points[id + 1]
  <2>1. h.seg # ShaSeg
    BY <1>1, PointSegments DEF ShaSeg
  <2>2. (IF h.seg = SecpSeg("k1") THEN "k1" ELSE "r1") = c
    BY <1>1 DEF SecpSeg, Curve
  <2> QED BY <1>7, <2>1, <2>2 DEF Referent
<1>10. secp[c].points[id + 1] \in Point
  BY <1>2, <1>6, ElementOfSeq
<1> QED BY <1>1, <1>6, <1>7, <1>8, <1>9, <1>10 DEF SecpInStep

\* The answer of a handler that has added the point asked for.
LEMMA AddedSound ==
    ASSUME SecpInStep, request.op \in PointOps, request.curve \in Curve,
           NEW gas \in 0 .. request.gas, Meaning(request) \in Point,
           NEW cells,
           LET q == EcPointPtr(request.curve, Len(secp[request.curve].points))
           IN  cells = IF request.op \in OptionalOps THEN <<Felt(0), q>> ELSE <<q>>
    PROVE  Sound(Outcome("response", gas, cells,
                         Allocate(request.curve, Meaning(request)),
                         sha256_segment, sha_mem))
<1> DEFINE q == EcPointPtr(request.curve, Len(secp[request.curve].points))
<1>1. Len(secp[request.curve].points) \in Nat
  BY LenProperties DEF SecpInStep
<1>2. q \in Cell /\ Felt(0) \in Cell
  BY <1>1 DEF EcPointPtr, Cell, Ptr, SecpSeg, EcCoordinate_size, Felt
<1>3. cells \in Seq(Cell) /\ Len(cells) = ResponseSize[request.op]
  <2>1. CASE request.op \in OptionalOps
    BY <1>2, <2>1, FewCells DEF ResponseSize, OptionalOps
  <2>2. CASE request.op \in {"SecpMul", "SecpAdd"}
    <3>1. request.op \notin OptionalOps
      BY <2>2 DEF OptionalOps
    <3> QED BY <1>2, <2>2, <3>1, FewCells DEF ResponseSize
  <2> QED BY <2>1, <2>2 DEF PointOps
<1>4. IF request.op \in OptionalOps
      THEN cells[1] = Felt(0) /\ cells[2] = q ELSE cells[1] = q
  OBVIOUS
<1> HIDE DEF q
<1> QED BY <1>3, <1>4 DEF Sound, AddsPoint, Outcome, q

LEMMA OptionalSound ==
    ASSUME SecpInStep, request.op \in OptionalOps, request.curve \in Curve,
           NEW gas \in 0 .. request.gas,
           NEW found \in {"invalid", "none", "point"}, NEW point,
           found = "point" => point = Meaning(request) /\ point \in Point
    PROVE  Sound(OptionalPoint(gas, request.curve, found, point))
<1>1. CASE found = "invalid"
  BY <1>1, FailureSound DEF OptionalPoint, OptionalOps
<1>2. CASE found = "none"
  <2> DEFINE o == Plain("response", gas, <<Felt(1), Felt(0)>>)
  <2>1. OptionalPoint(gas, request.curve, found, point) = o
    BY <1>2 DEF OptionalPoint
  <2>2. o.cells \in Seq(Cell) /\ Len(o.cells) = ResponseSize[request.op]
    BY CellLemma, FewCells DEF Plain, Outcome, ResponseSize, OptionalOps
  <2>3. Keeps(o)
    BY DEF Keeps, Plain, Outcome, OptionalOps, StateOp
  <2> QED BY <2>1, <2>2, <2>3 DEF Sound, Plain, Outcome
<1>3. CASE found = "point"
  <2>1. request.op \in PointOps
    BY DEF PointOps
  <2> QED BY <1>3, <2>1, AddedSound DEF OptionalPoint
<1> QED BY <1>1, <1>2, <1>3

LEMMA NewSound ==
    ASSUME Requested, SecpInStep, request.op = "SecpNew",
           NEW gas \in 0 .. request.gas, NEW m, NEW p \in Nat, FieldsAt(m, p)
    PROVE  Sound(SecpOutcome(request.op, request.curve, gas, m, p))
<1> DEFINE f == request.fields
<1>1. PICK c \in {<<1, 0>>, <<2, 0>>, <<1, 1>>, <<BeyondModulus, 0>>} :
         f = u256(c[1]) \o u256(c[2])
  BY DEF Requested, RequestFields, u256, LIMB, Felt
<1>2. /\ Len(f) = 4
      /\ f[1].off \in {0, 1, 2} /\ f[2].off \in {0, 1}
      /\ pack(f[1].off, f[2].off) \in {1, 2, BeyondModulus}
  BY <1>1 DEF u256, LIMB, Felt, BeyondModulus, pack
<1>3. m[p + 1 - 1] = f[1] /\ m[p + (1 + 1) - 1] = f[2]
  BY <1>2 DEF FieldsAt
<1> DEFINE x == pack(f[1].off, f[2].off)
           y == pack(m[p + 3 - 1].off, m[p + (3 + 1) - 1].off)
<1>4. SecpOutcome(request.op, request.curve, gas, m, p)
        = OptionalPoint(gas, request.curve, secp_new(x, y), x)
  BY <1>3 DEF SecpOutcome
<1>5. Meaning(request) = x
  BY DEF Meaning
<1>6. secp_new(x, y) \in {"invalid", "none", "point"}
      /\ (secp_new(x, y) = "point" => x \in Point)
  BY DEF secp_new
<1>7. request.curve \in Curve
  BY DEF Requested, SecpOps
<1>8. request.op \in OptionalOps
  BY DEF OptionalOps
<1> HIDE DEF x, y
<1> QED BY <1>4, <1>5, <1>6, <1>7, <1>8, OptionalSound

LEMMA FromXSound ==
    ASSUME Requested, SecpInStep, request.op = "SecpGetPointFromX",
           NEW gas \in 0 .. request.gas, NEW m, NEW p \in Nat, FieldsAt(m, p)
    PROVE  Sound(SecpOutcome(request.op, request.curve, gas, m, p))
<1> DEFINE f == request.fields
<1>1. PICK c \in {<<1, 0>>, <<1, 1>>, <<1, 2>>, <<OffCurve, 0>>, <<BeyondModulus, 0>>} :
         f = Append(u256(c[1]), Felt(c[2]))
  BY DEF Requested, RequestFields, u256, LIMB, Felt
<1>2. /\ Len(f) = 3
      /\ f[3].off \in {0, 1, 2}
      /\ pack(f[1].off, f[2].off) \in {1, OffCurve, BeyondModulus}
  BY <1>1 DEF u256, LIMB, Felt, BeyondModulus, OffCurve, pack
<1>3. m[p + 1 - 1] = f[1] /\ m[p + (1 + 1) - 1] = f[2] /\ m[p + 3 - 1] = f[3]
  BY <1>2 DEF FieldsAt
<1> DEFINE x == pack(f[1].off, f[2].off)
           q == WithParity(x, f[3].off)
<1>4. SecpOutcome(request.op, request.curve, gas, m, p)
        = OptionalPoint(gas, request.curve, secp_get_point_from_x(x), q)
  BY <1>3 DEF SecpOutcome
<1>5. Meaning(request) = q
  BY DEF Meaning
<1>6. secp_get_point_from_x(x) \in {"invalid", "none", "point"}
      /\ (secp_get_point_from_x(x) = "point" => q \in Point)
  BY <1>2 DEF secp_get_point_from_x, WithParity, Point, OffCurve, BeyondModulus
<1>7. request.curve \in Curve
  BY DEF Requested, SecpOps
<1>8. request.op \in OptionalOps
  BY DEF OptionalOps
<1> HIDE DEF x, q
<1> QED BY <1>4, <1>5, <1>6, <1>7, <1>8, OptionalSound

LEMMA MulSound ==
    ASSUME Requested, SecpInStep, request.op = "SecpMul",
           NEW gas \in 0 .. request.gas, NEW m, NEW p \in Nat, FieldsAt(m, p)
    PROVE  Sound(SecpOutcome(request.op, request.curve, gas, m, p))
<1> DEFINE c == request.curve
           f == request.fields
<1>1. c \in Curve
  BY DEF Requested, SecpOps
<1>2. PICK h \in Held(SecpSeg(c)) : f = <<h, Felt(2), Felt(0)>>
  BY DEF Requested, RequestFields
<1>3. /\ EcPointId(h) \in Nat /\ EcPointId(h) < Len(secp[c].points)
      /\ secp[c].segment
      /\ secp[c].points[EcPointId(h) + 1] = handles[h]
      /\ handles[h] \in Point
  BY <1>1, PointLemma DEF Requested
<1>4. /\ m[p + 1 - 1] = h /\ m[p + 2 - 1] = Felt(2) /\ m[p + (2 + 1) - 1] = Felt(0)
      /\ f[1] = h /\ f[2] = Felt(2) /\ f[2 + 1] = Felt(0)
  BY <1>2 DEF FieldsAt
<1>5. pack(Felt(2).off, Felt(0).off) = 2
  BY DEF pack, Felt, LIMB
<1> DEFINE q == (handles[h] * 2) % 3
<1>6. Meaning(request) = q
  BY <1>4, <1>5 DEF Meaning
<1>7. q \in Point
  BY <1>3 DEF Point
<1>8. SecpOutcome(request.op, c, gas, m, p) = PointOp(gas, c, {EcPointId(h)}, q)
  BY <1>3, <1>4, <1>5 DEF SecpOutcome
<1>9. PointOp(gas, c, {EcPointId(h)}, q)
        = Outcome("response", gas, <<EcPointPtr(c, Len(secp[c].points))>>,
                  Allocate(c, q), sha256_segment, sha_mem)
  BY <1>3 DEF PointOp
<1>10. request.op \in PointOps /\ request.op \notin OptionalOps
  BY DEF PointOps, OptionalOps
<1> HIDE DEF q
<1> QED BY <1>1, <1>6, <1>7, <1>8, <1>9, <1>10, AddedSound

LEMMA AddSound ==
    ASSUME Requested, SecpInStep, request.op = "SecpAdd",
           NEW gas \in 0 .. request.gas, NEW m, NEW p \in Nat, FieldsAt(m, p)
    PROVE  Sound(SecpOutcome(request.op, request.curve, gas, m, p))
<1> DEFINE c == request.curve
           f == request.fields
<1>1. c \in Curve
  BY DEF Requested, SecpOps
<1>2. PICK h1 \in Held(SecpSeg(c)), h2 \in Held(SecpSeg(c)) : f = <<h1, h2>>
  BY DEF Requested, RequestFields
<1>3. /\ EcPointId(h1) \in Nat /\ EcPointId(h1) < Len(secp[c].points)
      /\ secp[c].segment
      /\ secp[c].points[EcPointId(h1) + 1] = handles[h1]
      /\ handles[h1] \in Point
  BY <1>1, PointLemma DEF Requested
<1>4. /\ EcPointId(h2) \in Nat /\ EcPointId(h2) < Len(secp[c].points)
      /\ secp[c].points[EcPointId(h2) + 1] = handles[h2]
      /\ handles[h2] \in Point
  BY <1>1, PointLemma DEF Requested
<1>5. m[p + 1 - 1] = h1 /\ m[p + 2 - 1] = h2 /\ f[1] = h1 /\ f[2] = h2
  BY <1>2 DEF FieldsAt
<1> DEFINE q == (handles[h1] + handles[h2]) % 3
           ids == {EcPointId(h1), EcPointId(h2)}
<1>6. Meaning(request) = q
  BY <1>5 DEF Meaning
<1>7. q \in Point
  BY <1>3, <1>4 DEF Point
<1>8. SecpOutcome(request.op, c, gas, m, p) = PointOp(gas, c, ids, q)
  BY <1>3, <1>4, <1>5 DEF SecpOutcome
<1>9. PointOp(gas, c, ids, q)
        = Outcome("response", gas, <<EcPointPtr(c, Len(secp[c].points))>>,
                  Allocate(c, q), sha256_segment, sha_mem)
  BY <1>3, <1>4 DEF PointOp
<1>10. request.op \in PointOps /\ request.op \notin OptionalOps
  BY DEF PointOps, OptionalOps
<1> HIDE DEF q, ids
<1> QED BY <1>1, <1>6, <1>7, <1>8, <1>9, <1>10, AddedSound

LEMMA GetXySound ==
    ASSUME Requested, SecpInStep, request.op = "SecpGetXy",
           NEW gas \in 0 .. request.gas, NEW m, NEW p \in Nat, FieldsAt(m, p)
    PROVE  Sound(SecpOutcome(request.op, request.curve, gas, m, p))
<1> DEFINE c == request.curve
           f == request.fields
<1>1. c \in Curve
  BY DEF Requested, SecpOps
<1>2. PICK h \in Held(SecpSeg(c)) : f = <<h>>
  BY DEF Requested, RequestFields
<1>3. /\ EcPointId(h) \in Nat /\ EcPointId(h) < Len(secp[c].points)
      /\ secp[c].segment
      /\ secp[c].points[EcPointId(h) + 1] = handles[h]
      /\ handles[h] \in Point
  BY <1>1, PointLemma DEF Requested
<1>4. m[p + 1 - 1] = h /\ f[1] = h
  BY <1>2 DEF FieldsAt
<1> DEFINE cells == u256(handles[h]) \o u256(0)
           o == Plain("response", gas, cells)
<1>5. SecpOutcome(request.op, c, gas, m, p) = o
  BY <1>3, <1>4 DEF SecpOutcome
<1>6. /\ cells \in Seq(Cell) /\ Len(cells) = 4
      /\ <<cells[1], cells[2]>> = u256(handles[h])
  BY <1>3 DEF u256, LIMB, Felt, Cell, Point
<1> HIDE DEF cells
<1>7. Keeps(o)
  BY <1>4, <1>6 DEF Keeps, Plain, Outcome, OptionalOps, StateOp
<1>8. ResponseSize[request.op] = 4
  BY DEF ResponseSize
<1> QED BY <1>5, <1>6, <1>7, <1>8 DEF Sound, Plain, Outcome

LEMMA ExecuteSound ==
    ASSUME Requested, SecpInStep, ShaInStep, pc = "asking", asked \in Nat,
           request.gas \in 0 .. GasModulus - 1,
           NEW gas \in 0 .. request.gas,
           request.op = "Keccak" =>
              gas >= ((request.fields[2].off - request.fields[1].off)
                        \div KECCAK_FULL_RATE_IN_U64S) * KECCAK_ROUND_COST_GAS_COST,
           NEW m, NEW p \in Nat, FieldsAt(m, p),
           NEW o \in Execute(request.op, request.curve, gas, m, p)
    PROVE  Sound(o)
<1> DEFINE op == request.op
<1>1. CASE op \in {"CallContract", "LibraryCall", "LibraryCallL1Handler", "Deploy"}
  BY <1>1, CallsSound DEF Execute
<1>2. CASE op \in {"EmitEvent", "ReplaceClass", "SendMessageToL1", "StorageWrite",
                   "GetBlockHash", "StorageRead", "GetExecutionInfo"}
  BY <1>2, StateSound
<1>3. CASE op = "Keccak"
  <2>1. request.gas \in Nat
    BY SyscallHandlerAssumption
  <2>2. o = KeccakOutcome(gas, m, p)
    BY <1>3 DEF Execute
  <2> QED BY <1>3, <2>1, <2>2, KeccakSound
<1>4. CASE op = StateOp
  <2>1. o = ShaOutcome(gas, m, p)
    BY <1>4 DEF Execute, StateOp
  <2> QED BY <1>4, <2>1, ShaSound
<1>5. CASE op \in SecpOps
  <2>1. o = SecpOutcome(op, request.curve, gas, m, p)
    BY <1>5 DEF Execute, SecpOps
  <2> QED BY <1>5, <2>1, NewSound, FromXSound, MulSound, AddSound, GetXySound DEF SecpOps
<1> QED BY <1>1, <1>2, <1>3, <1>4, <1>5
        DEF Requested, Refused, RequestLayout, SecpOps, StateOp

-----------------------------------------------------------------------------
(* The handler finds the request and answers behind it.                    *)

\* The request in the segment, read through the handler's pointer.
LEMMA AskingLemma ==
    ASSUME IInv, pc = "asking"
    PROVE  /\ syscall_ptr = code_ptr /\ syscall_ptr \in DOMAIN mem
           /\ SyscallSelector[mem[syscall_ptr].off][1] = request.op
           /\ SyscallSelector[mem[syscall_ptr].off][2] = request.curve
           /\ request.op \in SecpOps => request.curve \in Curve
           /\ mem[syscall_ptr + 1].off = request.gas
           /\ request.gas = code_gas /\ request.gas \in 0 .. GasModulus - 1
           /\ code_ptr \in Nat /\ Len(request.fields) \in Nat
           /\ request.op \in DOMAIN RequestLayout
           /\ FieldsAt(mem, syscall_ptr + 1 + 1)
<1>1. /\ TypeOK /\ syscall_ptr = code_ptr
      /\ DOMAIN mem = 0 .. code_ptr + 1 + Len(request.fields)
      /\ request.gas = code_gas
      /\ mem[code_ptr + 1] = Felt(request.gas)
      /\ \A i \in 1 .. Len(request.fields) : mem[code_ptr + 1 + i] = request.fields[i]
  BY DEF IInv, RequestThere
<1>2. PICK k \in DOMAIN SyscallSelector :
         mem[code_ptr] = Felt(k) /\ SyscallSelector[k] = <<request.op, request.curve>>
  BY DEF IInv, RequestThere
<1>3. code_ptr \in Nat /\ request.op \in DOMAIN RequestLayout
      /\ code_gas \in 0 .. GasModulus - 1 /\ Len(request.fields) \in Nat
  BY <1>1, LayoutLemma DEF TypeOK
<1>4. mem[code_ptr].off = k /\ mem[code_ptr + 1].off = request.gas
  BY <1>1, <1>2 DEF Felt
<1>5. SyscallSelector[k][1] = request.op /\ SyscallSelector[k][2] = request.curve
  BY <1>2
<1>6. request.op \in SecpOps => request.curve \in Curve
  BY <1>5, SelectorLemma
<1>7. FieldsAt(mem, code_ptr + 1 + 1)
  <2> SUFFICES ASSUME NEW i \in 1 .. Len(request.fields)
               PROVE  /\ code_ptr + 1 + 1 + i - 1 \in DOMAIN mem
                      /\ mem[code_ptr + 1 + 1 + i - 1] = request.fields[i]
    BY DEF FieldsAt
  <2>1. PICK n \in Nat : n = Len(request.fields)
    BY <1>3
  <2>2. DOMAIN mem = 0 .. code_ptr + 1 + n /\ i \in 1 .. n
    BY <1>1, <2>1, Zenon
  <2>3. code_ptr + 1 + 1 + i - 1 = code_ptr + 1 + i
        /\ code_ptr + 1 + i \in 0 .. code_ptr + 1 + n
    BY <1>3, <2>2
  <2>4. mem[code_ptr + 1 + i] = request.fields[i]
    BY <1>1, Zenon
  <2> QED BY <2>2, <2>3, <2>4
<1>8. code_ptr \in DOMAIN mem
  <2>1. PICK n \in Nat : n = Len(request.fields)
    BY <1>3
  <2>2. DOMAIN mem = 0 .. code_ptr + 1 + n
    BY <1>1, <2>1, Zenon
  <2> QED BY <1>3, <2>2
<1>9. request.gas = code_gas /\ request.gas \in 0 .. GasModulus - 1
  BY <1>1, <1>3
<1> QED BY <1>1, <1>3, <1>4, <1>5, <1>6, <1>7, <1>8, <1>9, Zenon

\* Only GetExecutionInfo is asked for without the gas run_handler takes.
LEMMA GasLemma ==
    ASSUME IInv, GasSuffices, pc = "asking",
           request.gas < required_gas(request.op, request.curve)
    PROVE  request.op = "GetExecutionInfo"
<1> DEFINE op == request.op
           required == required_gas(op, request.curve)
           needed == GasNeeded(op, request.curve, request.fields)
<1>1. op # "GetExecutionInfo" => request.gas >= needed
  BY DEF IInv, RequestThere, GasSuffices
<1>2. required \in Nat /\ request.gas \in 0 .. GasModulus - 1
  BY AskingLemma, CostLemma
<1>3. op # "Keccak" => needed = required
  BY <1>2 DEF GasNeeded
<1>4. op = "Keccak" => required = 0
  BY DEF required_gas, syscall_gas_cost, SecpOps, PlainGasCost, SYSCALL_BASE_GAS_COST,
         STEP_GAS_COST
<1> QED BY <1>1, <1>2, <1>3, <1>4

\* Every way run_handler ends writes a sound outcome where the entry point
\* looks for it.
LEMMA HandlerLemma ==
    ASSUME IInv, GasSuffices, pc = "asking", ~Refused(request),
           NEW end \in run_handler(request.op, request.curve, mem, syscall_ptr + 1)
    PROVE  end.ptr = ResponseAt /\ Sound(end.outcome)
<1> DEFINE op == request.op
           curve == request.curve
           p == syscall_ptr + 1
           required == required_gas(op, curve)
           remaining == (mem[p].off - required) % GasModulus
<1>1. /\ syscall_ptr = code_ptr
      /\ op \in SecpOps => curve \in Curve
      /\ mem[p].off = request.gas
      /\ request.gas \in 0 .. GasModulus - 1
      /\ code_ptr \in Nat /\ Len(request.fields) \in Nat
      /\ op \in DOMAIN RequestLayout
      /\ FieldsAt(mem, p + 1)
  BY AskingLemma
<1>2. Requested
  BY <1>1 DEF IInv, RequestThere, Requested
<1>3. required \in Nat
  BY <1>1, CostLemma
<1>4. /\ Len(ReadLayout[op]) = Len(RequestLayout[op])
      /\ Len(request.fields) = Len(RequestLayout[op])
  BY <1>1, LayoutLemma DEF Refused, IInv, TypeOK
<1>5. CASE request.gas < required
  <2>1. op = "GetExecutionInfo"
    BY <1>5, GasLemma
  <2>2. Len(request.fields) = 0
    BY <1>4, <2>1 DEF RequestLayout
  <2>3. end.ptr = p + 1 /\ end.outcome = Plain("failure", request.gas, <<>>)
    BY <1>1, <1>5 DEF run_handler, OutOfGas
  <2>4. p + 1 = ResponseAt
    BY <1>1, <2>2 DEF ResponseAt
  <2>5. request.gas \in 0 .. request.gas
    BY <1>1, SyscallHandlerAssumption
  <2> QED BY <2>1, <2>3, <2>4, <2>5, FailureSound
<1>6. CASE ~(request.gas < required)
  <2>1. CanRead(op, mem, p + 1)
    BY <1>1, <1>2, CanReadLemma
  <2>2. PICK o \in Execute(op, curve, remaining, mem, p + 1) :
           end = [ptr |-> p + 1 + Len(ReadLayout[op]), outcome |-> o]
    BY <1>1, <1>6, <2>1 DEF run_handler, OutOfGas
  <2>3. remaining = request.gas - required /\ remaining \in 0 .. request.gas
    <3>1. request.gas - required \in Nat /\ request.gas - required < GasModulus
          /\ GasModulus \in Nat
      BY <1>1, <1>3, <1>6, SyscallHandlerAssumption
    <3> QED BY <1>1, <1>3, <3>1, SmallModulo
  <2>4. ASSUME op = "Keccak"
        PROVE  remaining >= ((request.fields[2].off - request.fields[1].off)
                   \div KECCAK_FULL_RATE_IN_U64S) * KECCAK_ROUND_COST_GAS_COST
    <3> DEFINE rounds == ((request.fields[2].off - request.fields[1].off)
                   \div KECCAK_FULL_RATE_IN_U64S) * KECCAK_ROUND_COST_GAS_COST
    <3>1. request.gas >= GasNeeded(op, curve, request.fields)
      BY <2>4 DEF IInv, RequestThere, GasSuffices
    <3>2. GasNeeded(op, curve, request.fields) = required + rounds
      BY <2>4 DEF GasNeeded
    <3>3. required = 0
      BY <2>4 DEF required_gas, syscall_gas_cost, SecpOps, PlainGasCost,
                  SYSCALL_BASE_GAS_COST, STEP_GAS_COST
    <3>4. rounds \in Int
      <4>1. PICK n \in {0, 1, 17} :
               request.fields = <<Ptr(DataSeg, 0), Ptr(DataSeg, n)>>
        BY <1>2, <2>4 DEF Requested, RequestFields, KECCAK_FULL_RATE_IN_U64S
      <4>2. request.fields[2].off - request.fields[1].off = n
        BY <4>1 DEF Ptr
      <4> QED BY <4>2 DEF KECCAK_FULL_RATE_IN_U64S, KECCAK_ROUND_COST_GAS_COST
    <3> HIDE DEF rounds
    <3>5. remaining >= rounds
      BY <1>1, <2>3, <3>1, <3>2, <3>3, <3>4
    <3> QED BY <3>5 DEF rounds
  <2>5. asked \in Nat /\ p + 1 \in Nat /\ SecpInStep /\ ShaInStep
    BY <1>1, SyscallHandlerAssumption DEF IInv, TypeOK
  <2> HIDE DEF remaining
  <2>6. Sound(o)
    BY <1>1, <1>2, <2>2, <2>3, <2>4, <2>5, ExecuteSound
  <2>7. p + 1 + Len(ReadLayout[op]) = ResponseAt
    BY <1>1, <1>4 DEF ResponseAt
  <2> QED BY <2>2, <2>6, <2>7
<1> QED BY <1>5, <1>6

\* A request that is refused stops the handler.
LEMMA RefusedLemma ==
    ASSUME IInv, GasSuffices, pc = "asking", Refused(request),
           request.op # "DelegateCall",
           NEW end \in run_handler(request.op, request.curve, mem, syscall_ptr + 1)
    PROVE  end.outcome.result = "error"
<1> DEFINE op == request.op
           p == syscall_ptr + 1 + 1
<1>1. \/ op \in {"StorageRead", "StorageWrite"} /\ request.fields[1] # Felt(0)
      \/ op = "SecpGetPointFromX" /\ request.fields[3] \notin {Felt(0), Felt(1)}
  BY DEF Refused
<1>2. ~(mem[syscall_ptr + 1].off < required_gas(op, request.curve))
  BY <1>1, AskingLemma, GasLemma
<1>3. ~CanRead(op, mem, p)
  <2>1. /\ p \in Nat /\ FieldsAt(mem, p)
        /\ Len(request.fields) = Len(RequestLayout[op])
    BY AskingLemma DEF IInv, TypeOK
  <2>2. CASE op \in {"StorageRead", "StorageWrite"} /\ request.fields[1] # Felt(0)
    <3>1. Len(RequestLayout[op]) \in {2, 3}
      BY <2>2 DEF RequestLayout
    <3>2. mem[p + 1 - 1] = request.fields[1]
      BY <2>1, <3>1 DEF FieldsAt
    <3>3. mem[p] # Felt(0)
      BY <2>1, <2>2, <3>2
    <3> QED BY <2>2, <3>3 DEF CanRead
  <2>3. CASE op = "SecpGetPointFromX" /\ request.fields[3] \notin {Felt(0), Felt(1)}
    <3>1. Len(RequestLayout[op]) = 3
      BY <2>3 DEF RequestLayout
    <3>2. mem[p + 3 - 1] = request.fields[3]
      BY <2>1, <3>1 DEF FieldsAt
    <3>3. mem[p + 2] \notin {Felt(0), Felt(1)}
      BY <2>1, <2>3, <3>2
    <3> QED BY <2>3, <3>3 DEF CanRead
  <2> QED BY <1>1, <2>2, <2>3
<1> QED BY <1>2, <1>3 DEF run_handler, OutOfGas, Plain, Outcome

-----------------------------------------------------------------------------
(* What an outcome does to the helper.                                     *)

\* Cells written at the end of a segment.
LEMMA WrittenLemma ==
    ASSUME NEW S, NEW m, NEW p \in Nat, DOMAIN m = 0 .. p - 1,
           \A o \in DOMAIN m : m[o] \in S,
           NEW cells \in Seq(S), NEW n \in Nat, Len(cells) = n,
           NEW w, w = Written(m, p, cells)
    PROVE  /\ Consistent(m, p, cells)
           /\ DOMAIN w = 0 .. p + n - 1
           /\ \A o \in DOMAIN w : w[o] \in S
           /\ \A o \in DOMAIN m : w[o] = m[o]
           /\ \A i \in 1 .. n : w[p + i - 1] = cells[i]
<1>1. \A i \in 1 .. n : cells[i] \in S
  BY ElementOfSeq
<1>2. w = [o \in 0 .. p + n - 1 |-> IF o \in 0 .. p - 1 THEN m[o] ELSE cells[o - p + 1]]
  <2>1. (0 .. p - 1) \cup p .. (p + n - 1) = 0 .. p + n - 1
    OBVIOUS
  <2> QED BY <2>1 DEF Written
<1>3. Consistent(m, p, cells)
  BY DEF Consistent
<1>4. \A o \in 0 .. p + n - 1 : w[o] \in S
  BY <1>1, <1>2
<1>5. \A o \in 0 .. p - 1 : w[o] = m[o]
  BY <1>2
<1>6. \A i \in 1 .. n : w[p + i - 1] = cells[i]
  BY <1>2
<1>7. DOMAIN w = 0 .. p + n - 1
  BY <1>2
<1> QED BY <1>3, <1>4, <1>5, <1>6, <1>7

\* The same of the system call segment.
LEMMA MemoryWritten ==
    \A p \in Nat, cells \in Seq(Cell) :
       DOMAIN mem = 0 .. p - 1 /\ (\A o \in DOMAIN mem : mem[o] \in Cell) =>
          /\ Consistent(mem, p, cells)
          /\ DOMAIN Written(mem, p, cells) = 0 .. p + Len(cells) - 1
          /\ \A o \in DOMAIN Written(mem, p, cells) : Written(mem, p, cells)[o] \in Cell
          /\ \A i \in 1 .. Len(cells) : Written(mem, p, cells)[p + i - 1] = cells[i]
<1> SUFFICES ASSUME NEW p \in Nat, NEW cells \in Seq(Cell), NEW w,
                    w = Written(mem, p, cells), NEW n \in Nat, Len(cells) = n,
                    DOMAIN mem = 0 .. p - 1, \A o \in DOMAIN mem : mem[o] \in Cell
             PROVE  /\ Consistent(mem, p, cells)
                    /\ DOMAIN w = 0 .. p + n - 1
                    /\ \A o \in DOMAIN w : w[o] \in Cell
                    /\ \A i \in 1 .. n : w[p + i - 1] = cells[i]
  BY LenProperties
<1> QED BY WrittenLemma

\* A pointer to a point tells its curve and its id.
LEMMA PointPtr ==
    ASSUME NEW c \in Curve, NEW id \in Nat
    PROVE  LET h == EcPointPtr(c, id)
           IN  /\ h \in Cell /\ h.seg # ShaSeg
               /\ (IF h.seg = SecpSeg("k1") THEN "k1" ELSE "r1") = c
               /\ EcPointId(h) = id
<1>1. EcPointPtr(c, id).off = id * 6 /\ EcPointPtr(c, id).seg = SecpSeg(c)
  BY DEF EcPointPtr, Ptr, EcCoordinate_size
<1>2. EcPointId(EcPointPtr(c, id)) = id
  BY <1>1, PointIds DEF EcPointId, EcCoordinate_size
<1>3. EcPointPtr(c, id) \in Cell
  BY DEF EcPointPtr, Ptr, EcCoordinate_size, Cell, SecpSeg
<1>4. (IF SecpSeg(c) = SecpSeg("k1") THEN "k1" ELSE "r1") = c /\ SecpSeg(c) # ShaSeg
  BY DEF SecpSeg, ShaSeg, Curve
<1> QED BY <1>1, <1>2, <1>3, <1>4

\* States and points are only ever added.
Grows ==
    /\ \A o \in DOMAIN sha_mem : o \in DOMAIN sha_mem' /\ sha_mem'[o] = sha_mem[o]
    /\ \A c \in Curve : \A id \in 0 .. Len(secp[c].points) - 1 :
          /\ id \in 0 .. Len(secp'[c].points) - 1
          /\ secp'[c].points[id + 1] = secp[c].points[id + 1]

\* So a pointer goes on leading where it leads.
LEMMA LeadsOn ==
    ASSUME SecpInStep, Grows, NEW h, Leads(h)
    PROVE  Leads(h)' /\ Referent(h)' = Referent(h)
<1>1. CASE h.seg = ShaSeg /\ h.off \in DOMAIN sha_mem
  BY <1>1 DEF Leads, Referent, Grows
<1>2. CASE \E c \in Curve : \E id \in 0 .. Len(secp[c].points) - 1 : h = EcPointPtr(c, id)
  <2>1. PICK c \in Curve : \E id \in 0 .. Len(secp[c].points) - 1 : h = EcPointPtr(c, id)
    BY <1>2
  <2>2. PICK id \in 0 .. Len(secp[c].points) - 1 : h = EcPointPtr(c, id)
    BY <2>1
  <2>3. Len(secp[c].points) \in Nat
    BY LenProperties DEF SecpInStep
  <2>4. id \in Nat
    BY <2>2, <2>3
  <2>5. /\ h \in Cell /\ h.seg # ShaSeg
        /\ (IF h.seg = SecpSeg("k1") THEN "k1" ELSE "r1") = c
        /\ EcPointId(h) = id
    BY <2>2, <2>4, PointPtr
  <2>6. id \in 0 .. Len(secp'[c].points) - 1
        /\ secp'[c].points[id + 1] = secp[c].points[id + 1]
    BY <2>2 DEF Grows
  <2>7. Leads(h)'
    BY <2>2, <2>5, <2>6 DEF Leads
  <2> QED BY <2>5, <2>6, <2>7 DEF Referent
<1> QED BY <1>1, <1>2 DEF Leads

\* A state is added: the blocks still tile, and the pointer leads to it.
LEMMA StateAdded ==
    ASSUME ShaInStep, pc = "asking", asked \in Nat, NEW o, AddsState(o),
           pc' = "answered", asked' = asked, secp' = o.secp,
           sha256_segment' = o.sha256_segment, sha_mem' = o.sha_mem,
           NEW h, h = Ptr(ShaSeg, sha256_segment + 24)
    PROVE  /\ ShaInStep' /\ Grows
           /\ Leads(h)' /\ Referent(h)' = Meaning(request)
<1> DEFINE out == sha256_segment + 24
           v == Meaning(request)
<1>1. PICK n \in 0 .. asked : /\ n + 1 <= asked
                              /\ DOMAIN sha_mem = {32 * i + 24 : i \in 0 .. n - 1}
                              /\ sha256_segment = 32 * n
  BY DEF ShaInStep
<1>2. out \in Nat /\ out = 32 * n + 24 /\ out \notin DOMAIN sha_mem
  BY <1>1, NextBlock
<1>3. sha_mem' = [x \in DOMAIN sha_mem \cup {out} |->
                    IF x \in DOMAIN sha_mem THEN sha_mem[x] ELSE v]
  <2>1. sha_mem' = [x \in DOMAIN sha_mem \cup out .. (out + Len(<<v>>) - 1) |->
                      IF x \in DOMAIN sha_mem THEN sha_mem[x] ELSE <<v>>[x - out + 1]]
    BY DEF AddsState, Written
  <2>2. out .. (out + Len(<<v>>) - 1) = {out}
    BY <1>2
  <2>3. <<v>>[out - out + 1] = v
    BY <1>2
  <2> QED BY <2>1, <2>2, <2>3
<1>4. sha256_segment' = 32 * (n + 1) /\ v \in Nat
  BY <1>1 DEF AddsState
<1>5. DOMAIN sha_mem' = {32 * i + 24 : i \in 0 .. (n + 1) - 1}
  <2>1. {32 * i + 24 : i \in 0 .. (n + 1) - 1}
          = {32 * i + 24 : i \in 0 .. n - 1} \cup {32 * n + 24}
    OBVIOUS
  <2> QED BY <1>1, <1>2, <1>3, <2>1
<1>6. ShaInStep'
  <2>1. \A x \in DOMAIN sha_mem' : sha_mem'[x] \in Nat
    BY <1>3, <1>4 DEF ShaInStep
  <2>2. n + 1 \in 0 .. asked
    BY <1>1
  <2> QED BY <1>4, <1>5, <2>1, <2>2 DEF ShaInStep
<1>7. Grows
  BY <1>3 DEF Grows, AddsState
<1>8. h \in Cell /\ h.seg = ShaSeg /\ h.off = out
  BY <1>2 DEF Ptr, ShaSeg, Cell
<1>9. Leads(h)' /\ Referent(h)' = v
  BY <1>2, <1>3, <1>8 DEF Leads, Referent
<1> QED BY <1>6, <1>7, <1>9

\* A point is added: the other points keep their ids.
LEMMA PointAdded ==
    ASSUME SecpInStep, NEW o, AddsPoint(o), request.curve \in Curve,
           secp' = o.secp, sha256_segment' = o.sha256_segment, sha_mem' = o.sha_mem,
           NEW h, h = EcPointPtr(request.curve, Len(secp[request.curve].points))
    PROVE  /\ SecpInStep' /\ Grows
           /\ Leads(h)' /\ Referent(h)' = Meaning(request)
<1> DEFINE v == Meaning(request)
<1>0. PICK c, points : c \in Curve /\ c = request.curve /\ points = secp[c].points
  OBVIOUS
<1>1. points \in Seq(Point) /\ Len(points) \in Nat /\ v \in Point
  BY <1>0, LenProperties DEF SecpInStep, AddsPoint
<1>2. secp' = [secp EXCEPT ![c] = [points |-> Append(points, v), segment |-> TRUE]]
  BY <1>0 DEF AddsPoint, Allocate
<1>3. secp'[c].points = Append(points, v) /\ secp'[c].segment
  BY <1>0, <1>2 DEF SecpInStep
<1>4. \A d \in Curve : d # c => secp'[d] = secp[d]
  BY <1>2 DEF SecpInStep
<1>5. /\ Append(points, v) \in Seq(Point) /\ Len(Append(points, v)) = Len(points) + 1
      /\ \A i \in 1 .. Len(points) : Append(points, v)[i] = points[i]
      /\ Append(points, v)[Len(points) + 1] = v
  BY <1>1, AppendProperties
<1>6. SecpInStep'
  <2>1. DOMAIN secp' = Curve
    BY <1>2 DEF SecpInStep
  <2>2. ASSUME NEW d \in Curve
        PROVE  secp'[d].points \in Seq(Point) /\ (secp'[d].points # <<>> => secp'[d].segment)
    BY <1>3, <1>4, <1>5 DEF SecpInStep
  <2> QED BY <2>1, <2>2 DEF SecpInStep
<1>7. Grows
  <2>1. ASSUME NEW d \in Curve, NEW id \in 0 .. Len(secp[d].points) - 1
        PROVE  id \in 0 .. Len(secp'[d].points) - 1
               /\ secp'[d].points[id + 1] = secp[d].points[id + 1]
    <3>1. CASE d = c
      <4>1. id + 1 \in 1 .. Len(points)
        BY <1>0, <1>1, <3>1
      <4>2. Len(secp'[d].points) = Len(points) + 1
            /\ secp'[d].points[id + 1] = points[id + 1]
        BY <1>3, <1>5, <3>1, <4>1
      <4> QED BY <1>0, <1>1, <3>1, <4>1, <4>2
    <3>2. CASE d # c
      BY <1>4, <3>2
    <3> QED BY <3>1, <3>2
  <2>2. sha_mem' = sha_mem
    BY DEF AddsPoint
  <2> QED BY <2>1, <2>2 DEF Grows
<1>8. /\ h \in Cell /\ h.seg # ShaSeg
      /\ (IF h.seg = SecpSeg("k1") THEN "k1" ELSE "r1") = c
      /\ EcPointId(h) = Len(points)
  BY <1>0, <1>1, PointPtr
<1>9. Len(points) \in 0 .. Len(secp'[c].points) - 1
  BY <1>1, <1>3, <1>5
<1>10. Leads(h)'
  BY <1>0, <1>8, <1>9 DEF Leads
<1>11. Referent(h)' = v
  BY <1>3, <1>5, <1>8 DEF Referent
<1> QED BY <1>6, <1>7, <1>10, <1>11

-----------------------------------------------------------------------------
(* The steps.                                                              *)

LEMMA InitStep == Init => IInv
<1> SUFFICES ASSUME Init PROVE IInv
  OBVIOUS
<1> USE DEF Init
<1>1. TypeOK
  <2>1. request.op \in DOMAIN RequestLayout
        /\ Len(request.fields) = Len(RequestLayout[request.op])
    BY DEF NoRequest, RequestLayout
  <2>2. code_gas \in 0 .. GasModulus - 1 /\ asked \in 0 .. MaxSyscalls
        /\ entries \in 0 .. MaxEntryPoints
    BY SyscallHandlerAssumption
  <2> QED BY <2>1, <2>2 DEF TypeOK, NoPtr
<1>2. EmptyOutside
  BY DEF EmptyOutside
<1>3. SecpInStep
  <2>1. DOMAIN secp = Curve /\ \A c \in Curve : secp[c].points = <<>>
    OBVIOUS
  <2>2. <<>> \in Seq(Point)
    OBVIOUS
  <2> QED BY <2>1, <2>2 DEF SecpInStep
<1>4. ShaInStep
  <2>1. 0 \in 0 .. asked /\ {32 * i + 24 : i \in 0 .. 0 - 1} = {}
    OBVIOUS
  <2> QED BY <2>1 DEF ShaInStep
<1> QED BY <1>1, <1>2, <1>3, <1>4
        DEF IInv, HandlesLead, PointersInStep, RequestThere, AnswerThere,
            CoordinatesMeant, AbortsOnlyOnRefusal

\* A pointer leads where it led if the helper is left alone.
LEMMA LeadsStill ==
    ASSUME UNCHANGED <<secp, sha_mem>>, NEW h
    PROVE  (Leads(h)' <=> Leads(h)) /\ Referent(h)' = Referent(h)
  BY DEF Leads, Referent

LEMMA ShaStill ==
    ASSUME ShaInStep, asked \in Nat, UNCHANGED <<sha_mem, sha256_segment, asked>>,
           pc # "start", pc' \notin {"start", "asking"}
    PROVE  ShaInStep'
<1>1. PICK n \in 0 .. asked : /\ DOMAIN sha_mem = {32 * i + 24 : i \in 0 .. n - 1}
                              /\ sha256_segment = 32 * n
  BY DEF ShaInStep
<1> QED BY <1>1 DEF ShaInStep

LEMMA StartStep ==
    ASSUME IInv, set_sha256_segment
    PROVE  IInv'
<1> USE DEF set_sha256_segment
<1>1. TypeOK'
  BY DEF IInv, TypeOK, NoPtr
<1>2. EmptyOutside' /\ SecpInStep'
  BY DEF IInv, EmptyOutside, SecpInStep
<1>3. ShaInStep'
  <2>1. \E n \in 0 .. asked : n = 0 /\ DOMAIN sha_mem = {32 * i + 24 : i \in 0 .. n - 1}
    BY DEF IInv, ShaInStep
  <2> QED BY <2>1 DEF IInv, ShaInStep
<1>4. HandlesLead'
  BY LeadsStill DEF IInv, HandlesLead
<1> QED BY <1>1, <1>2, <1>3, <1>4
        DEF IInv, PointersInStep, RequestThere, AnswerThere, CoordinatesMeant,
            AbortsOnlyOnRefusal

LEMMA EnterStep ==
    ASSUME IInv, set_syscall_ptr
    PROVE  IInv'
<1> USE DEF set_syscall_ptr
<1>1. TypeOK'
  <2>1. InitialGas \in 0 .. GasModulus - 1 /\ entries + 1 \in 0 .. MaxEntryPoints
    BY SyscallHandlerAssumption DEF IInv, TypeOK
  <2> QED BY <2>1 DEF IInv, TypeOK
<1>2. EmptyOutside' /\ SecpInStep'
  BY DEF IInv, EmptyOutside, SecpInStep
<1>3. ShaInStep'
  BY ShaStill, SyscallHandlerAssumption DEF IInv, TypeOK
<1>4. HandlesLead'
  BY LeadsStill DEF IInv, HandlesLead
<1>5. PointersInStep'
  BY DEF IInv, EmptyOutside, PointersInStep
<1> QED BY <1>1, <1>2, <1>3, <1>4, <1>5
        DEF IInv, RequestThere, AnswerThere, CoordinatesMeant, AbortsOnlyOnRefusal

\* The OS stops at a request that is refused.
LEMMA AbortStep ==
    ASSUME IInv, pc \in {"running", "asking", "answered"}, Abort, Refused(request)
    PROVE  IInv'
<1> USE DEF Abort
<1>1. TypeOK'
  BY DEF IInv, TypeOK
<1>2. EmptyOutside' /\ SecpInStep'
  BY DEF IInv, EmptyOutside, SecpInStep
<1>3. ShaInStep'
  BY ShaStill, SyscallHandlerAssumption DEF IInv, TypeOK
<1>4. HandlesLead'
  BY LeadsStill DEF IInv, HandlesLead
<1>5. AbortsOnlyOnRefusal'
  BY DEF AbortsOnlyOnRefusal, Refused
<1> QED BY <1>1, <1>2, <1>3, <1>4, <1>5
        DEF IInv, PointersInStep, RequestThere, AnswerThere, CoordinatesMeant

LEMMA LeaveStep ==
    ASSUME IInv, validate_and_discard_syscall_ptr
    PROVE  IInv'
<1>1. syscall_ptr = code_ptr /\ syscall_ptr \in Nat
  BY DEF IInv, TypeOK, PointersInStep, validate_and_discard_syscall_ptr
<1>2. LeaveEntryPoint /\ syscall_ptr' = NoPtr /\ pc = "running"
  BY <1>1 DEF validate_and_discard_syscall_ptr, NoPtr
<1> USE <1>2 DEF LeaveEntryPoint
<1>3. TypeOK'
  <2>1. request'.op \in DOMAIN RequestLayout
        /\ Len(request'.fields) = Len(RequestLayout[request'.op])
    BY DEF NoRequest, RequestLayout
  <2>2. 0 \in 0 .. GasModulus - 1
    BY SyscallHandlerAssumption
  <2> QED BY <2>1, <2>2 DEF IInv, TypeOK
<1>4. EmptyOutside' /\ SecpInStep'
  BY DEF IInv, EmptyOutside, SecpInStep
<1>5. ShaInStep'
  BY ShaStill, SyscallHandlerAssumption DEF IInv, TypeOK
<1>6. HandlesLead'
  BY DEF HandlesLead
<1> QED BY <1>3, <1>4, <1>5, <1>6
        DEF IInv, PointersInStep, RequestThere, AnswerThere, CoordinatesMeant,
            AbortsOnlyOnRefusal

LEMMA FieldsStill ==
    ASSUME handles' = handles, NEW op, NEW curve
    PROVE  RequestFields(op, curve)' = RequestFields(op, curve)
<1>1. \A seg : Held(seg)' = Held(seg)
  BY DEF Held
<1>2. CASE op = "Sha256ProcessBlock"
  BY <1>1, <1>2 DEF RequestFields
<1>3. CASE op = "SecpMul"
  BY <1>1, <1>3 DEF RequestFields
<1>4. CASE op = "SecpAdd"
  BY <1>1, <1>4 DEF RequestFields
<1>5. CASE op = "SecpGetXy"
  BY <1>1, <1>5 DEF RequestFields
<1>6. CASE op \notin {"Sha256ProcessBlock", "SecpMul", "SecpAdd", "SecpGetXy"}
  BY <1>6 DEF RequestFields
<1> QED BY <1>2, <1>3, <1>4, <1>5, <1>6

LEMMA AskStep ==
    ASSUME IInv, AskAny
    PROVE  IInv'
<1>1. PICK k \in DOMAIN SyscallSelector :
         \E fields \in RequestFields(SyscallSelector[k][1], SyscallSelector[k][2]) :
            \E gas \in Nat : Ask(k, fields, gas)
  BY DEF AskAny
<1> DEFINE op == SyscallSelector[k][1]
           curve == SyscallSelector[k][2]
<1>2. PICK fields \in RequestFields(op, curve) : \E gas \in Nat : Ask(k, fields, gas)
  BY <1>1
<1>3. PICK gas \in Nat : Ask(k, fields, gas)
  BY <1>2
<1>4. k \in 1 .. 24 /\ op \in DOMAIN RequestLayout
  BY SelectorLemma
<1>5. SyscallSelector[k] = <<op, curve>>
  BY <1>4 DEF SyscallSelector
<1>6. /\ pc = "running" /\ asked < MaxSyscalls /\ gas <= code_gas
      /\ gas >= GasNeeded(op, curve, fields) \/ op \in ShortOfGas
      /\ mem' = Written(mem, code_ptr, <<Felt(k), Felt(gas)>> \o fields)
      /\ request' = [op |-> op, curve |-> curve, gas |-> gas, fields |-> fields]
      /\ code_gas' = gas /\ asked' = asked + 1 /\ pc' = "asking"
      /\ UNCHANGED <<code_ptr, handles, syscall_ptr, secp, sha256_segment, sha_mem, entries>>
  BY <1>3 DEF Ask
<1>7. /\ fields \in Seq(Cell) /\ Len(fields) = Len(RequestLayout[op])
  BY <1>4, FieldsLemma DEF IInv
<1>8. PICK n \in Nat : n = Len(fields)
  BY <1>7, LenProperties
<1>9. /\ request'.op = op /\ request'.curve = curve /\ request'.gas = gas
      /\ request'.fields = fields
  BY <1>6
<1> HIDE DEF op, curve
<1> DEFINE cells == <<Felt(k), Felt(gas)>> \o fields
<1>10. /\ cells \in Seq(Cell) /\ Len(cells) = 2 + n
       /\ cells[1] = Felt(k) /\ cells[2] = Felt(gas)
       /\ \A i \in 1 .. n : cells[i + 2] = fields[i]
  <2>1. Felt(k) \in Cell /\ Felt(gas) \in Cell
    BY <1>4, CellLemma
  <2> QED BY <1>7, <1>8, <2>1, PairPrefix
<1> HIDE DEF cells
<1>11. mem' = Written(mem, code_ptr, cells)
  BY <1>6 DEF cells
<1>12. /\ code_ptr \in Nat /\ DOMAIN mem = 0 .. code_ptr - 1
       /\ syscall_ptr = code_ptr /\ \A o \in DOMAIN mem : mem[o] \in Cell
       /\ code_gas \in 0 .. GasModulus - 1
       /\ asked \in 0 .. MaxSyscalls /\ MaxSyscalls \in Nat /\ GasModulus \in Nat
  BY <1>6, SyscallHandlerAssumption DEF IInv, TypeOK, PointersInStep
<1>13. /\ DOMAIN mem' = 0 .. code_ptr + (2 + n) - 1
       /\ \A o \in DOMAIN mem' : mem'[o] \in Cell
       /\ \A i \in 1 .. (2 + n) : mem'[code_ptr + i - 1] = cells[i]
  <2>1. code_ptr \in Nat /\ cells \in Seq(Cell) /\ DOMAIN mem = 0 .. code_ptr - 1
        /\ \A o \in DOMAIN mem : mem[o] \in Cell
    BY <1>10, <1>12, Zenon
  <2>2. /\ DOMAIN mem' = 0 .. code_ptr + Len(cells) - 1
        /\ \A o \in DOMAIN mem' : mem'[o] \in Cell
        /\ \A i \in 1 .. Len(cells) : mem'[code_ptr + i - 1] = cells[i]
    BY <1>11, <2>1, MemoryWritten, Zenon
  <2> QED BY <1>10, <2>2, Zenon
<1>14. /\ DOMAIN mem' = 0 .. code_ptr + 1 + n
       /\ mem'[code_ptr] = Felt(k) /\ mem'[code_ptr + 1] = Felt(gas)
       /\ \A i \in 1 .. n : mem'[code_ptr + 1 + i] = fields[i]
  <2>1. /\ code_ptr + 1 - 1 = code_ptr /\ code_ptr + 2 - 1 = code_ptr + 1
        /\ \A i \in 1 .. n : code_ptr + (i + 2) - 1 = code_ptr + 1 + i
        /\ code_ptr + (2 + n) - 1 = code_ptr + 1 + n
    BY <1>12
  <2>2. mem'[code_ptr] = Felt(k) /\ mem'[code_ptr + 1] = Felt(gas)
    BY <1>10, <1>13, <2>1
  <2>3. \A i \in 1 .. n : mem'[code_ptr + 1 + i] = fields[i]
    BY <1>10, <1>13, <2>1
  <2>4. DOMAIN mem' = 0 .. code_ptr + 1 + n
    BY <1>13, <2>1
  <2> QED BY <2>2, <2>3, <2>4
<1>15. TypeOK'
  <2>1. gas \in 0 .. GasModulus - 1 /\ asked + 1 \in 0 .. MaxSyscalls
    BY <1>6, <1>12
  <2>2. DOMAIN mem' \subseteq Nat
    BY <1>12, <1>14
  <2> QED BY <1>4, <1>6, <1>7, <1>9, <1>13, <2>1, <2>2 DEF IInv, TypeOK, op
<1>16. EmptyOutside' /\ SecpInStep'
  BY <1>6 DEF IInv, EmptyOutside, SecpInStep
<1>17. ShaInStep'
  <2>1. PICK i \in 0 .. asked : /\ DOMAIN sha_mem = {32 * j + 24 : j \in 0 .. i - 1}
                                /\ sha256_segment = 32 * i
    BY <1>6 DEF IInv, ShaInStep
  <2>2. i \in 0 .. asked + 1 /\ i + 1 <= asked + 1
    BY <1>12, <2>1
  <2> QED BY <1>6, <2>1, <2>2 DEF IInv, ShaInStep
<1>18. HandlesLead'
  BY <1>6, LeadsStill DEF IInv, HandlesLead
<1>19. RequestThere'
  <2>1. fields \in RequestFields(op, curve)'
    BY <1>2, <1>6, FieldsStill DEF op, curve
  <2>2. /\ syscall_ptr' = code_ptr' /\ code_ptr' = code_ptr
        /\ request'.gas = code_gas'
    BY <1>6, <1>9, <1>12
  <2>3. mem'[code_ptr] = Felt(k) /\ SyscallSelector[k] = <<request'.op, request'.curve>>
    BY <1>5, <1>9, <1>14
  <2> QED BY <1>6, <1>8, <1>9, <1>14, <2>1, <2>2, <2>3 DEF RequestThere
<1> QED BY <1>6, <1>15, <1>16, <1>17, <1>18, <1>19
        DEF IInv, PointersInStep, AnswerThere, CoordinatesMeant, AbortsOnlyOnRefusal

LEMMA ReadStep ==
    ASSUME IInv, ReadResponse
    PROVE  IInv' /\ code_gas' <= code_gas
<1>1. /\ pc = "answered" /\ syscall_ptr \in Nat /\ code_ptr \in Nat
      /\ ResponseAt + 1 \in DOMAIN mem
      /\ syscall_ptr = ResponseAt + ResponseLen
      /\ DOMAIN mem = 0 .. syscall_ptr - 1
      /\ mem[ResponseAt].off <= code_gas
      /\ \A h \in NewHandle : /\ Leads(h)
                              /\ Referent(h) = Meaning(request)
                              /\ Meaning(request) \in Nat
  BY DEF ReadResponse, IInv, TypeOK, AnswerThere
<1>2. ResponseAt \in Nat
  <2>1. PICK n \in Nat : n = Len(request.fields)
    BY LayoutLemma DEF IInv, TypeOK
  <2>2. ResponseAt = code_ptr + 2 + n
    BY <2>1 DEF ResponseAt
  <2> QED BY <1>1, <2>2
<1>3. ResponseThere
  <2>1. ResponseLen \in Nat
    BY LayoutLemma DEF ResponseLen, IInv, TypeOK
  <2>2. ResponseAt .. (ResponseAt + ResponseLen - 1) \subseteq 0 .. syscall_ptr - 1
    BY <1>1, <1>2, <2>1
  <2> QED BY <1>1, <2>2 DEF ResponseThere
<1>4. /\ code_gas' = mem[ResponseAt].off
      /\ code_ptr' = syscall_ptr
      /\ handles' = [h \in DOMAIN handles \cup NewHandle |->
                        IF h \in NewHandle THEN Meaning(request) ELSE handles[h]]
      /\ pc' = "running"
      /\ UNCHANGED <<mem, request, syscall_ptr, secp, sha256_segment, sha_mem,
                     asked, entries>>
  BY <1>1, <1>3 DEF ReadResponse
<1>5. code_gas' \in Nat /\ code_gas' <= code_gas /\ code_gas \in 0 .. GasModulus - 1
  <2>1. PICK r \in Nat : r = ResponseAt
    BY <1>2
  <2>2. r \in DOMAIN mem
    BY <1>1, <2>1
  <2>3. mem[r] \in Cell
    BY <2>2 DEF IInv, TypeOK
  <2> QED BY <1>1, <1>4, <2>1, <2>3 DEF Cell, IInv, TypeOK
<1>6. HandlesLead'
  <2>1. ASSUME NEW h \in DOMAIN handles' PROVE Leads(h) /\ Referent(h) = handles'[h]
    BY <1>1, <1>4 DEF IInv, HandlesLead
  <2> QED BY <1>4, <2>1, LeadsStill DEF HandlesLead
<1>7. TypeOK'
  <2>1. code_gas' \in 0 .. GasModulus - 1
    BY <1>5, SyscallHandlerAssumption
  <2>2. ASSUME NEW h \in DOMAIN handles' PROVE h \in Cell /\ handles'[h] \in Nat
    BY <1>1, <1>4 DEF IInv, TypeOK, Leads
  <2> QED BY <1>1, <1>4, <2>1, <2>2 DEF IInv, TypeOK
<1>8. EmptyOutside' /\ SecpInStep'
  BY <1>4 DEF IInv, EmptyOutside, SecpInStep
<1>9. ShaInStep'
  BY <1>1, <1>4, ShaStill, SyscallHandlerAssumption DEF IInv, TypeOK
<1>10. PointersInStep'
  BY <1>1, <1>4 DEF PointersInStep
<1> QED BY <1>4, <1>5, <1>6, <1>7, <1>8, <1>9, <1>10
        DEF IInv, RequestThere, AnswerThere, CoordinatesMeant, AbortsOnlyOnRefusal

\* The cells of a sound outcome.
LEMMA CellsLemma ==
    ASSUME NEW o, Sound(o), request.gas \in Nat, request.op \in DOMAIN RequestLayout
    PROVE  LET cells == ResponseCells(o)
           IN  /\ cells \in Seq(Cell)
               /\ Len(cells) = IF cells[2] = Felt(0) THEN 2 + ResponseSize[request.op]
                                                     ELSE 4
               /\ Len(cells) \in Nat /\ Len(cells) >= 2
               /\ cells[1] = Felt(o.gas)
               /\ cells[2] = Felt(0) <=> o.result = "response"
               /\ o.result = "response" =>
                     \A i \in 1 .. ResponseSize[request.op] : cells[i + 2] = o.cells[i]
<1>1. o.gas \in Nat /\ o.gas <= request.gas
  BY DEF Sound
<1>2. Felt(o.gas) \in Cell /\ Felt(0) \in Cell /\ Felt(1) \in Cell /\ Felt(0) # Felt(1)
  BY <1>1 DEF Felt, Cell
<1>3. CASE o.result = "failure"
  <2> DEFINE cells == <<Felt(o.gas), Felt(1), Ptr(DataSeg, 0), Ptr(DataSeg, 1)>>
  <2>1. ResponseCells(o) = cells
    BY <1>3 DEF ResponseCells, Failure
  <2>2. Ptr(DataSeg, 0) \in Cell /\ Ptr(DataSeg, 1) \in Cell
    BY CellLemma DEF DataSeg
  <2>3. cells \in Seq(Cell) /\ Len(cells) = 4 /\ cells[1] = Felt(o.gas) /\ cells[2] = Felt(1)
    BY <1>2, <2>2, FewCells
  <2> HIDE DEF cells
  <2> QED BY <1>2, <1>3, <2>1, <2>3
<1>4. CASE o.result = "response"
  <2> DEFINE cells == <<Felt(o.gas), Felt(0)>> \o o.cells
  <2>1. ResponseCells(o) = cells
    BY <1>4 DEF ResponseCells
  <2>2. o.cells \in Seq(Cell) /\ Len(o.cells) = ResponseSize[request.op]
    BY <1>4 DEF Sound
  <2>3. PICK n \in Nat : n = ResponseSize[request.op]
    BY LayoutLemma
  <2>4. /\ cells \in Seq(Cell) /\ Len(cells) = 2 + n
        /\ cells[1] = Felt(o.gas) /\ cells[2] = Felt(0)
        /\ \A i \in 1 .. n : cells[i + 2] = o.cells[i]
    BY <1>2, <2>2, <2>3, PairPrefix
  <2> HIDE DEF cells
  <2> QED BY <1>4, <2>1, <2>3, <2>4
<1> QED BY <1>3, <1>4 DEF Sound

\* The pointers and the segment after an answer at r.
LEMMA AnswerWritten ==
    ASSUME IInv, pc = "asking", NEW o, Sound(o), NEW r, r = ResponseAt
    PROVE  LET cells == ResponseCells(o)
               w == Written(mem, r, cells)
           IN  /\ r \in Nat /\ DOMAIN mem = 0 .. r - 1
               /\ Consistent(mem, r, cells)
               /\ DOMAIN w = 0 .. r + Len(cells) - 1
               /\ \A a \in DOMAIN w : w[a] \in Cell
               /\ w[r] = cells[1]
               /\ w[r + 1] = cells[2]
               /\ \A i \in 1 .. Len(cells) : w[r + i - 1] = cells[i]
<1>1. /\ code_ptr \in Nat /\ request.op \in DOMAIN RequestLayout
      /\ request.gas \in Nat
  BY AskingLemma
<1>2. PICK n \in Nat : n = Len(request.fields)
  BY AskingLemma
<1>3. r = code_ptr + 2 + n /\ DOMAIN mem = 0 .. code_ptr + 1 + n
  BY <1>2 DEF ResponseAt, IInv, RequestThere
<1>4. r \in Nat /\ DOMAIN mem = 0 .. r - 1
  BY <1>1, <1>3
<1>5. \A a \in DOMAIN mem : mem[a] \in Cell
  BY DEF IInv, TypeOK
<1>6. PICK cells : cells = ResponseCells(o)
  OBVIOUS
<1>7. cells \in Seq(Cell) /\ Len(cells) \in Nat /\ Len(cells) >= 2
  BY <1>1, <1>6, CellsLemma
<1>8. PICK len \in Nat : Len(cells) = len
  BY <1>7
<1>9. PICK w : w = Written(mem, r, cells)
  OBVIOUS
<1>10. /\ Consistent(mem, r, cells)
       /\ DOMAIN w = 0 .. r + len - 1
       /\ \A a \in DOMAIN w : w[a] \in Cell
       /\ \A i \in 1 .. len : w[r + i - 1] = cells[i]
  BY <1>4, <1>5, <1>7, <1>8, <1>9, MemoryWritten, Zenon
<1>11. w[r] = cells[1] /\ w[r + 1] = cells[2]
  <2>1. len >= 2
    BY <1>7, <1>8
  <2>2. r + 1 - 1 = r /\ r + 2 - 1 = r + 1
    BY <1>4
  <2> QED BY <1>10, <2>1, <2>2
<1> QED BY <1>4, <1>6, <1>8, <1>9, <1>10, <1>11

\* What the helper becomes: it grows, and a pointer in the response leads to
\* what was asked for.
LEMMA HelperStep ==
    ASSUME IInv, pc = "asking", NEW o, Sound(o),
           pc' = "answered", asked' = asked, secp' = o.secp,
           sha256_segment' = o.sha256_segment, sha_mem' = o.sha_mem
    PROVE  /\ SecpInStep' /\ ShaInStep' /\ Grows
           /\ AddsState(o) => /\ Leads(o.cells[1])'
                              /\ Referent(o.cells[1])' = Meaning(request)
                              /\ Meaning(request) \in Nat
           /\ AddsPoint(o) =>
                 \A h : h = (IF request.op \in OptionalOps THEN o.cells[2]
                                                           ELSE o.cells[1]) =>
                    /\ Leads(h)' /\ Referent(h)' = Meaning(request)
                    /\ Meaning(request) \in Nat
<1>1. SecpInStep /\ ShaInStep /\ asked \in Nat
  BY SyscallHandlerAssumption DEF IInv, TypeOK
<1>2. CASE Keeps(o) /\ ~AddsState(o) /\ ~AddsPoint(o)
  <2>1. UNCHANGED <<secp, sha256_segment, sha_mem>>
    BY <1>2 DEF Keeps
  <2>2. SecpInStep'
    BY <1>1, <2>1 DEF SecpInStep
  <2>3. ShaInStep'
    BY <1>1, <2>1, ShaStill
  <2>4. Grows
    BY <2>1 DEF Grows
  <2> QED BY <1>2, <2>2, <2>3, <2>4
<1>3. CASE AddsState(o)
  <2>1. PICK h : h = Ptr(ShaSeg, sha256_segment + 24)
    OBVIOUS
  <2>2. o.cells[1] = h /\ secp' = secp /\ Meaning(request) \in Nat
    BY <1>3, <2>1 DEF AddsState
  <2>3. ShaInStep' /\ Grows /\ Leads(h)' /\ Referent(h)' = Meaning(request)
    BY <1>1, <1>3, <2>1, StateAdded
  <2>4. SecpInStep'
    BY <1>1, <2>2 DEF SecpInStep
  <2>5. ~AddsPoint(o)
    BY <1>3 DEF AddsState, AddsPoint, PointOps, OptionalOps, StateOp
  <2> QED BY <2>2, <2>3, <2>4, <2>5
<1>4. CASE AddsPoint(o)
  <2>1. PICK h : h = EcPointPtr(request.curve, Len(secp[request.curve].points))
    OBVIOUS
  <2>2. (IF request.op \in OptionalOps THEN o.cells[2] ELSE o.cells[1]) = h
        /\ Meaning(request) \in Nat
    BY <1>4, <2>1 DEF AddsPoint, Point
  <2>3. request.curve \in Curve
    <3>1. request.op \in SecpOps
      BY <1>4 DEF AddsPoint, PointOps, OptionalOps, SecpOps
    <3> QED BY <3>1, AskingLemma
  <2>4. SecpInStep' /\ Grows /\ Leads(h)' /\ Referent(h)' = Meaning(request)
    BY <1>1, <1>4, <2>1, <2>3, PointAdded
  <2>5. ShaInStep'
    <3>1. UNCHANGED <<sha_mem, sha256_segment>>
      BY <1>4 DEF AddsPoint
    <3> QED BY <1>1, <3>1, ShaStill
  <2>6. ~AddsState(o)
    BY <1>4 DEF AddsState, AddsPoint, PointOps, OptionalOps, StateOp
  <2> QED BY <2>2, <2>4, <2>5, <2>6
<1> QED BY <1>2, <1>3, <1>4 DEF Sound

LEMMA AnswerStep ==
    ASSUME IInv, pc = "asking", NEW o, Sound(o),
           mem' = Written(mem, ResponseAt, ResponseCells(o)),
           syscall_ptr' = ResponseAt + Len(ResponseCells(o)),
           secp' = o.secp, sha256_segment' = o.sha256_segment, sha_mem' = o.sha_mem,
           pc' = "answered",
           UNCHANGED <<code_ptr, code_gas, request, handles, asked, entries>>
    PROVE  IInv'
<1>1. PICK r, cells : r = ResponseAt /\ cells = ResponseCells(o)
  OBVIOUS
<1>2. /\ request.op \in DOMAIN RequestLayout /\ request.gas = code_gas
      /\ request.gas \in Nat
  BY AskingLemma
<1>3. /\ cells \in Seq(Cell)
      /\ Len(cells) = IF cells[2] = Felt(0) THEN 2 + ResponseSize[request.op] ELSE 4
      /\ Len(cells) \in Nat /\ Len(cells) >= 2
      /\ cells[1] = Felt(o.gas)
      /\ cells[2] = Felt(0) <=> o.result = "response"
      /\ o.result = "response" =>
            \A i \in 1 .. ResponseSize[request.op] : cells[i + 2] = o.cells[i]
  BY <1>1, <1>2, CellsLemma
<1>4. /\ r \in Nat /\ DOMAIN mem' = 0 .. r + Len(cells) - 1
      /\ \A a \in DOMAIN mem' : mem'[a] \in Cell
      /\ mem'[r] = cells[1] /\ mem'[r + 1] = cells[2]
      /\ \A i \in 1 .. Len(cells) : mem'[r + i - 1] = cells[i]
  BY <1>1, AnswerWritten
<1>5. ResponseAt' = r
  BY <1>1 DEF ResponseAt
<1>6. ResponseLen' = Len(cells)
  BY <1>3, <1>4, <1>5 DEF ResponseLen
<1>7. /\ SecpInStep' /\ ShaInStep' /\ Grows
      /\ AddsState(o) => /\ Leads(o.cells[1])'
                         /\ Referent(o.cells[1])' = Meaning(request)
                         /\ Meaning(request) \in Nat
      /\ AddsPoint(o) =>
            \A h : h = (IF request.op \in OptionalOps THEN o.cells[2]
                                                      ELSE o.cells[1]) =>
               /\ Leads(h)' /\ Referent(h)' = Meaning(request)
               /\ Meaning(request) \in Nat
  BY HelperStep
<1>8. o.result = "response" =>
         \A i \in 1 .. ResponseSize[request.op] : mem'[r + 1 + i] = o.cells[i]
  <2> SUFFICES ASSUME o.result = "response", NEW i \in 1 .. ResponseSize[request.op]
               PROVE  mem'[r + 1 + i] = o.cells[i]
    OBVIOUS
  <2>1. PICK n \in Nat : n = ResponseSize[request.op]
    BY <1>2, LayoutLemma
  <2>2. Len(cells) = 2 + n
    BY <1>3, <2>1
  <2>3. i + 2 \in 1 .. Len(cells) /\ r + (i + 2) - 1 = r + 1 + i
    BY <1>4, <2>1, <2>2
  <2> QED BY <1>3, <1>4, <2>3
<1>9. TypeOK'
  <2>1. syscall_ptr' \in Nat /\ DOMAIN mem' \subseteq Nat
    BY <1>1, <1>3, <1>4
  <2>2. \A c \in Curve : \A i \in DOMAIN secp'[c].points : secp'[c].points[i] \in Point
    <3> SUFFICES ASSUME NEW c \in Curve, NEW i \in DOMAIN secp'[c].points
                 PROVE  secp'[c].points[i] \in Point
      OBVIOUS
    <3>1. secp'[c].points \in Seq(Point)
      BY <1>7 DEF SecpInStep
    <3> QED BY <3>1, LenProperties, ElementOfSeq
  <2>3. sha256_segment' \in Nat
    <3>1. PICK n \in 0 .. asked' : sha256_segment' = 32 * n
      BY <1>7 DEF ShaInStep
    <3>2. asked' \in Nat
      BY SyscallHandlerAssumption DEF IInv, TypeOK
    <3> QED BY <3>1, <3>2
  <2> QED BY <1>4, <2>1, <2>2, <2>3 DEF IInv, TypeOK
<1>10. HandlesLead'
  <2> SUFFICES ASSUME NEW h \in DOMAIN handles
               PROVE  Leads(h)' /\ Referent(h)' = handles[h]
    BY DEF HandlesLead
  <2>1. Leads(h) /\ Referent(h) = handles[h] /\ SecpInStep
    BY DEF IInv, HandlesLead
  <2> QED BY <1>7, <2>1, LeadsOn
<1>11. AnswerThere'
  <2>1. r + 1 \in DOMAIN mem'
    BY <1>3, <1>4
  <2>2. syscall_ptr' = r + Len(cells) /\ DOMAIN mem' = 0 .. syscall_ptr' - 1
    BY <1>1, <1>4
  <2>3. mem'[r].off <= code_gas'
    BY <1>2, <1>3, <1>4 DEF Sound, Felt
  <2>4. Meaning(request)' = Meaning(request)
    BY DEF Meaning
  <2>5. ASSUME NEW h \in NewHandle'
        PROVE  Leads(h)' /\ Referent(h)' = Meaning(request) /\ Meaning(request) \in Nat
    <3>1. o.result = "response"
      BY <1>3, <1>4, <1>5, <2>5 DEF NewHandle
    <3>2. CASE request.op \in OptionalOps
      <4>1. ResponseSize[request.op] = 2
        BY <3>2 DEF ResponseSize, OptionalOps
      <4>2. mem'[r + 2] = o.cells[1] /\ mem'[r + 3] = o.cells[2]
        BY <1>4, <1>8, <3>1, <4>1
      <4>3. o.cells[1] = Felt(0) /\ h = o.cells[2]
        BY <1>5, <2>5, <3>2, <4>2 DEF NewHandle, OptionalOps
      <4>4. ~Keeps(o) /\ ~AddsState(o)
        BY <3>1, <3>2, <4>3 DEF Keeps, AddsState, OptionalOps, StateOp, Felt
      <4> QED BY <1>7, <3>2, <4>3, <4>4 DEF Sound
    <3>3. CASE request.op \in {"SecpMul", "SecpAdd", StateOp}
      <4>1. ResponseSize[request.op] = 1
        BY <3>3 DEF ResponseSize, StateOp
      <4>2. mem'[r + 2] = o.cells[1]
        BY <1>4, <1>8, <3>1, <4>1
      <4>3. h = o.cells[1] /\ request.op \notin OptionalOps
        BY <1>5, <2>5, <3>3, <4>2 DEF NewHandle, OptionalOps, StateOp
      <4>4. ~Keeps(o)
        BY <3>1, <3>3 DEF Keeps
      <4> QED BY <1>7, <4>3, <4>4 DEF Sound
    <3>4. CASE request.op \notin OptionalOps \cup {"SecpMul", "SecpAdd", StateOp}
      BY <2>5, <3>4 DEF NewHandle, OptionalOps, StateOp
    <3> QED BY <3>2, <3>3, <3>4
  <2> QED BY <1>5, <1>6, <2>1, <2>2, <2>3, <2>4, <2>5 DEF AnswerThere
<1>12. CoordinatesMeant'
  <2> SUFFICES ASSUME request.op = "SecpGetXy"
               PROVE  <<mem'[r + 2], mem'[r + 3]>> = u256(handles[request.fields[1]])
    BY <1>5 DEF CoordinatesMeant, u256, Felt
  <2>1. /\ o.result = "response"
        /\ <<o.cells[1], o.cells[2]>> = u256(handles[request.fields[1]])
    BY DEF Sound, Keeps, AddsState, AddsPoint, PointOps, OptionalOps, StateOp
  <2>2. ResponseSize[request.op] = 4
    BY DEF ResponseSize
  <2>3. mem'[r + 2] = o.cells[1] /\ mem'[r + 3] = o.cells[2]
    BY <1>4, <1>8, <2>1, <2>2
  <2> QED BY <2>1, <2>3
<1> QED BY <1>7, <1>9, <1>10, <1>11, <1>12
        DEF IInv, EmptyOutside, PointersInStep, RequestThere, AbortsOnlyOnRefusal

LEMMA ExecuteStep ==
    ASSUME IInv, GasSuffices, execute_syscall
    PROVE  IInv' /\ code_gas' = code_gas
<1>1. pc = "asking"
  BY DEF execute_syscall
<1>2. /\ syscall_ptr = code_ptr /\ syscall_ptr \in DOMAIN mem
      /\ SyscallSelector[mem[syscall_ptr].off][1] = request.op
      /\ SyscallSelector[mem[syscall_ptr].off][2] = request.curve
  BY <1>1, AskingLemma
<1>3. ASSUME Abort, Refused(request) PROVE IInv' /\ code_gas' = code_gas
  BY <1>1, <1>3, AbortStep DEF Abort
<1>4. CASE request.op = "DelegateCall"
  <2>1. Abort
    BY <1>2, <1>4 DEF execute_syscall
  <2>2. Refused(request)
    BY <1>4 DEF Refused
  <2> QED BY <1>3, <2>1, <2>2
<1>5. CASE request.op # "DelegateCall"
  <2>1. PICK end \in run_handler(request.op, request.curve, mem, syscall_ptr + 1) :
           IF \/ end.outcome.result = "error"
              \/ ~Consistent(mem, end.ptr, ResponseCells(end.outcome))
           THEN Abort
           ELSE /\ mem' = Written(mem, end.ptr, ResponseCells(end.outcome))
                /\ syscall_ptr' = end.ptr + Len(ResponseCells(end.outcome))
                /\ secp' = end.outcome.secp
                /\ sha256_segment' = end.outcome.sha256_segment
                /\ sha_mem' = end.outcome.sha_mem
                /\ pc' = "answered"
                /\ UNCHANGED <<code_ptr, code_gas, request, handles, asked, entries>>
    BY <1>2, <1>5 DEF execute_syscall
  <2>2. CASE Refused(request)
    <3>1. end.outcome.result = "error"
      BY <1>1, <1>5, <2>2, RefusedLemma
    <3> QED BY <1>3, <2>1, <2>2, <3>1
  <2>3. CASE ~Refused(request)
    <3>1. end.ptr = ResponseAt /\ Sound(end.outcome)
      BY <1>1, <2>3, HandlerLemma
    <3>2. Consistent(mem, end.ptr, ResponseCells(end.outcome))
      BY <1>1, <3>1, AnswerWritten
    <3>3. end.outcome.result # "error"
      BY <3>1 DEF Sound
    <3> QED BY <1>1, <2>1, <3>1, <3>2, <3>3, AnswerStep
  <2> QED BY <2>2, <2>3
<1> QED BY <1>4, <1>5

\* The invariant is inductive.
LEMMA NextStep ==
    ASSUME GasSuffices
    PROVE  IInv /\ [Next]_vars => IInv'
<1> SUFFICES ASSUME IInv, [Next]_vars PROVE IInv'
  OBVIOUS
<1>1. CASE set_sha256_segment
  BY <1>1, StartStep
<1>2. CASE set_syscall_ptr
  BY <1>2, EnterStep
<1>3. CASE AskAny
  BY <1>3, AskStep
<1>4. CASE execute_syscall
  BY <1>4, ExecuteStep
<1>5. CASE ReadResponse
  BY <1>5, ReadStep
<1>6. CASE validate_and_discard_syscall_ptr
  BY <1>6, LeaveStep
<1>7. CASE UNCHANGED vars
  <2> USE <1>7 DEF vars
  <2>1. TypeOK' /\ EmptyOutside' /\ SecpInStep' /\ ShaInStep'
    BY DEF IInv, TypeOK, EmptyOutside, SecpInStep, ShaInStep
  <2>2. HandlesLead'
    BY LeadsStill DEF IInv, HandlesLead
  <2>3. PointersInStep' /\ AbortsOnlyOnRefusal'
    BY DEF IInv, PointersInStep, AbortsOnlyOnRefusal, Refused
  <2>4. RequestThere'
    BY FieldsStill DEF IInv, RequestThere, GasNeeded
  <2>5. ResponseAt' = ResponseAt /\ ResponseLen' = ResponseLen
        /\ NewHandle' = NewHandle /\ Meaning(request)' = Meaning(request)
    BY DEF ResponseAt, ResponseLen, NewHandle, Meaning
  <2>6. AnswerThere'
    BY <2>5, LeadsStill DEF IInv, AnswerThere
  <2>7. CoordinatesMeant'
    BY <2>5 DEF IInv, CoordinatesMeant
  <2> QED BY <2>1, <2>2, <2>3, <2>4, <2>6, <2>7 DEF IInv
<1> QED BY <1>1, <1>2, <1>3, <1>4, <1>5, <1>6, <1>7 DEF Next

-----------------------------------------------------------------------------
(* The theorems.                                                           *)

\* The invariant holds in every state an OS run can reach, for any number of
\* syscalls and entry points, if only GetExecutionInfo is short of gas.
THEOREM Invariant == GasSuffices /\ Spec => []IInv
<1> SUFFICES ASSUME GasSuffices PROVE Spec => []IInv
  OBVIOUS
<1>1. Init => IInv
  BY InitStep
<1>2. IInv /\ [Next]_vars => IInv'
  BY NextStep
<1> QED BY <1>1, <1>2, PTL DEF Spec

\* The state of the handler and of the helper keeps its types.
THEOREM Types == GasSuffices /\ Spec => []TypeOK
<1>1. IInv => TypeOK
  BY DEF IInv
<1> QED BY <1>1, Invariant, PTL

\* Between syscalls the handler's pointer and the entry point's agree, and the
\* segment is full up to them: no assertion on the pointers can fail.
THEOREM Pointers == GasSuffices /\ Spec => []PointersInStep
<1>1. IInv => PointersInStep
  BY DEF IInv
<1> QED BY <1>1, Invariant, PTL

\* Only a request the handler refuses stops the OS.
THEOREM Aborts == GasSuffices /\ Spec => []AbortsOnlyOnRefusal
<1>1. IInv => AbortsOnlyOnRefusal
  BY DEF IInv
<1> QED BY <1>1, Invariant, PTL

\* Pointers to points and to SHA-256 states keep their meaning for good.
THEOREM Handles == GasSuffices /\ Spec => []HandlesKeepTheirMeaning
<1>1. IInv => HandlesKeepTheirMeaning
  BY DEF IInv, HandlesLead, CoordinatesMeant, HandlesKeepTheirMeaning
<1> QED BY <1>1, Invariant, PTL

\* The states answered tile the SHA-256 segment.
THEOREM Tiles == GasSuffices /\ Spec => []ShaBlocksTile
<1>1. IInv => ShaBlocksTile
  <2> SUFFICES ASSUME IInv PROVE ShaBlocksTile
    OBVIOUS
  <2>1. PICK n \in 0 .. asked :
           /\ DOMAIN sha_mem = {32 * i + 24 : i \in 0 .. n - 1}
           /\ sha256_segment = (IF pc = "start" THEN NoPtr ELSE 32 * n)
    BY DEF IInv, ShaInStep
  <2>2. n \in 0 .. MaxSyscalls
    BY <2>1, SyscallHandlerAssumption DEF IInv, TypeOK
  <2> QED BY <2>1, <2>2 DEF ShaBlocksTile
<1> QED BY <1>1, Invariant, PTL

\* An entry point's gas never grows.
THEOREM Gas == GasSuffices /\ Spec => GasOnlySpent
<1> SUFFICES ASSUME GasSuffices PROVE Spec => GasOnlySpent
  OBVIOUS
<1>1. IInv /\ [Next]_vars => [pc # "outside" => code_gas' <= code_gas]_vars
  <2> SUFFICES ASSUME IInv, Next, pc # "outside" PROVE code_gas' <= code_gas
    OBVIOUS
  <2>1. code_gas \in Nat
    BY SyscallHandlerAssumption DEF IInv, TypeOK
  <2>2. CASE set_sha256_segment
    BY <2>1, <2>2 DEF set_sha256_segment
  <2>3. CASE set_syscall_ptr
    BY <2>3 DEF set_syscall_ptr
  <2>4. CASE AskAny
    BY <2>4 DEF AskAny, Ask
  <2>5. CASE execute_syscall
    BY <2>1, <2>5, ExecuteStep
  <2>6. CASE ReadResponse
    BY <2>6, ReadStep
  <2>7. CASE validate_and_discard_syscall_ptr
    BY <2>1, <2>7 DEF validate_and_discard_syscall_ptr, Abort, LeaveEntryPoint
  <2> QED BY <2>2, <2>3, <2>4, <2>5, <2>6, <2>7 DEF Next
<1>2. Spec => []IInv
  BY Invariant
<1> QED BY <1>1, <1>2, PTL DEF Spec, GasOnlySpent
=============================================================================
