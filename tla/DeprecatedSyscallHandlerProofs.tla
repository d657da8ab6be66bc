-------------------- MODULE DeprecatedSyscallHandlerProofs --------------------
(***************************************************************************)
(* Proofs about DeprecatedSyscallHandler, for entry points of any length,  *)
(* calls of any depth and any number of transactions.                      *)
(*                                                                         *)
(* The two passes over an entry point meet in its script: syscall number   *)
(* j + 1 lies At(script, j) cells into the segment, and its answer is the  *)
(* one that the first j syscalls leave in the recording.  The invariant    *)
(* says so of every entry point on the stack, and follows the temporary    *)
(* segments from the syscall that gets one to the rule that moves it.      *)
(***************************************************************************)
EXTENDS DeprecatedSyscallHandler, FiniteSetTheorems, SequenceTheorems, TLAPS

\* The hint of delegate_call does not run its handler (hints/syscalls.rs): the
\* claims are about entry points without it.
NoDelegateCall == "DelegateCall" \notin Offered

-----------------------------------------------------------------------------
(* The invariant.                                                          *)

\* How far into the segment syscall number j + 1 begins.
At(script, j) ==
    9 * CountIn(script, j, {"Deploy"})
      + 7 * CountIn(script, j, CallOps)
      + 5 * CountIn(script, j, {"EmitEvent"})
      + 4 * CountIn(script, j, {"SendMessageToL1"})
      + 3 * CountIn(script, j, {"StorageRead", "StorageWrite", "GetTxSignature"})
      + 2 * CountIn(script, j, {"ReplaceClass"} \cup (Getters \ {"GetTxSignature"}))

Modes == {"validate", "execute"}
CallSet == [mode : Modes, caller_address : Nat, storage_address : Nat]
FrameFields == {"call", "script", "asked", "mem", "ptr", "pass", "os_ptr",
                "os_done", "retdata"}

\* How many syscalls the OS has executed.
Here(f) == Len(f.os_done)

FrameTypes(f) ==
    /\ DOMAIN f = FrameFields
    /\ f.call \in CallSet
    /\ f.script \in Seq(Offered)
    /\ f.call.mode = "validate" =>
          \A i \in 1 .. Len(f.script) : f.script[i] # "GetSequencerAddress"
    /\ f.asked \in 0 .. Len(f.script)
    /\ f.os_done \in Seq(Offered) /\ Here(f) <= f.asked
    /\ \A i \in 1 .. Here(f) : f.os_done[i] = f.script[i]
    /\ \/ f.pass = "code" /\ Here(f) = 0
       \/ f.pass = "os" /\ f.asked = Len(f.script)

\* The syscalls asked for fill the segment, each with its selector.
FrameLaid(f) ==
    /\ f.ptr = At(f.script, f.asked)
    /\ DOMAIN f.mem = 0 .. f.ptr - 1
    /\ f.os_ptr = At(f.script, Here(f))
    /\ \A j \in 0 .. f.asked - 1 :
          f.mem[At(f.script, j)] = Felt(selector(f.script[j + 1]))

\* What syscall number j + 1 of f returns in transaction tx.
MeantCells(f, j, tx) ==
    LET op == f.script[j + 1] IN
    IF op = "StorageRead"
    THEN <<Felt(ReadValue(CountIn(f.script, j, {"StorageRead"}) + 1))>>
    ELSE IF op = "Deploy"
    THEN <<Felt(DeployedAt(CountIn(f.script, j, {"Deploy"}) + 1)), Felt(0), Felt(0)>>
    ELSE IF op = "GetBlockNumber" THEN <<BlockInfo(f.call.mode)[1]>>
    ELSE IF op = "GetBlockTimestamp" THEN <<BlockInfo(f.call.mode)[2]>>
    ELSE IF op = "GetSequencerAddress" THEN <<BlockInfo(f.call.mode)[3]>>
    ELSE IF op = "GetCallerAddress" THEN <<Felt(f.call.caller_address)>>
    ELSE IF op = "GetContractAddress" THEN <<Felt(f.call.storage_address)>>
    ELSE IF op = "GetTxInfo" THEN <<Ptr(TxInfoSeg(tx), 0)>>
    ELSE IF op = "GetTxSignature" THEN <<Felt(2), Ptr(SignatureSeg(tx), 0)>>
    ELSE <<>>

MeantResult(f, j) ==
    ResultOf(f.script[j + 1], CountIn(f.script, j, InnerOps) + 1)

\* The response of a call: the temporary segment with what the call returns.
Guess(f, j) == -f.mem[At(f.script, j) + 6].seg
GuessRight(f, j, temp) ==
    /\ f.mem[At(f.script, j) + 5] = Felt(Len(MeantResult(f, j)))
    /\ f.mem[At(f.script, j) + 6] = Ptr(-Guess(f, j), 0)
    /\ Guess(f, j) \in DOMAIN temp
    /\ temp[Guess(f, j)] = MeantResult(f, j)

\* The response of any other syscall.
AnswerRight(f, j, tx) ==
    \A i \in 1 .. ResponseSize(f.script[j + 1]) :
        f.mem[At(f.script, j) + RequestSize(f.script[j + 1]) + i - 1]
            = MeantCells(f, j, tx)[i]

FrameAnswered(f, temp, tx, exempt) ==
    \A j \in 0 .. f.asked - 1 :
        /\ f.script[j + 1] \in CallOps => GuessRight(f, j, temp)
        /\ f.script[j + 1] \notin CallOps \cup exempt => AnswerRight(f, j, tx)

\* The syscalls that declarations get no right answer to.
InfoOps == {"GetTxInfo", "GetTxSignature"}
Exempt == IF tx_info_ptr.seg = ContextSeg(txs) THEN InfoOps ELSE {}

FramesInStep ==
    \A i \in 1 .. Len(stack) :
        /\ FrameTypes(stack[i]) /\ FrameLaid(stack[i])
        /\ FrameAnswered(stack[i], temporary, txs, Exempt)

\* A caller is where it made the call, and the callee returns what it expects.
Calling(f, callee) ==
    /\ f.pass = "os" /\ Here(f) < Len(f.script)
    /\ f.script[Here(f) + 1] \in InnerOps
    /\ callee.retdata = MeantResult(f, Here(f))
CallsInStep == \A i \in 1 .. Len(stack) - 1 : Calling(stack[i], stack[i + 1])

\* The iterators hold what the running code has still to ask for.
Left(f, ops) == CountIn(f.script, Len(f.script), ops) - CountIn(f.script, f.asked, ops)
ResultsLeft(f) ==
    [n \in 1 .. Left(f, InnerOps) |->
        LET m == CountIn(f.script, f.asked, InnerOps) + n
        IN ResultOf(InnerOp(f.script, m), m)]
DeployedLeft(f) ==
    [n \in 1 .. Left(f, {"Deploy"}) |->
        DeployedAt(CountIn(f.script, f.asked, {"Deploy"}) + n)]
ReadsLeft(f) ==
    [n \in 1 .. Left(f, {"StorageRead"}) |->
        ReadValue(CountIn(f.script, f.asked, {"StorageRead"}) + n)]
CodeInStep ==
    Len(stack) > 0 /\ stack[Len(stack)].pass = "code" =>
        /\ call_info = stack[Len(stack)].call /\ call_execution_info_ptr # None
        /\ result_iter = ResultsLeft(stack[Len(stack)])
        /\ deployed_contracts_iter = DeployedLeft(stack[Len(stack)])
        /\ execute_code_read_iter = ReadsLeft(stack[Len(stack)])

\* A segment with a rule is moved to one with its contents; one without is the
\* response to a call that the OS has still to execute, and to one only.
Pending(f) == {j \in Here(f) .. f.asked - 1 : f.script[j + 1] \in CallOps}
RulesMeant(temp, rules) ==
    /\ DOMAIN rules \subseteq DOMAIN temp
    /\ \A t \in DOMAIN rules : rules[t] = temp[t]
Owed(s, t) == \E i \in 1 .. Len(s) : \E j \in Pending(s[i]) : Guess(s[i], j) = t
Unmoved(s, rules) ==
    \A i \in 1 .. Len(s) : \A j \in Pending(s[i]) : Guess(s[i], j) \notin DOMAIN rules
Distinct(s) ==
    \A i \in 1 .. Len(s) : \A j \in Pending(s[i]) :
        \A g \in 1 .. Len(s) : \A h \in Pending(s[g]) :
            Guess(s[g], h) = Guess(s[i], j) => g = i /\ h = j
Segments(s, temp, rules) ==
    /\ RulesMeant(temp, rules)
    /\ \A t \in DOMAIN temp \ DOMAIN rules : Owed(s, t)
    /\ Unmoved(s, rules)
    /\ Distinct(s)
SegmentsInStep == Segments(stack, temporary, relocation_rules)

\* The transaction, and its info.
IsStack(s) == Len(s) \in Nat /\ s = [i \in 1 .. Len(s) |-> s[i]]
TxInStep ==
    /\ txs \in Nat /\ todo \in Seq(Modes) /\ IsStack(stack)
    /\ temporary \in Seq(Seq(Nat))
    /\ \/ tx_info_ptr = None /\ stack = <<>> /\ todo = <<>>
       \/ tx_info_ptr = Ptr(TxInfoSeg(txs), 0)
       \/ tx_info_ptr = Ptr(ContextSeg(txs), deprecated_tx_info_offset)

RunInv == /\ TxInStep /\ FramesInStep /\ CallsInStep /\ CodeInStep
          /\ SegmentsInStep

IInv == /\ NothingIsRefused /\ status # "unknown_memory"
        /\ status = "running" => RunInv

-----------------------------------------------------------------------------
(* Counting.                                                               *)

LEMMA CountLemma ==
    ASSUME NEW s, NEW ops, NEW j \in Nat
    PROVE  /\ CountIn(s, 0, ops) = 0
           /\ CountIn(s, j, ops) \in Nat
           /\ CountIn(s, j + 1, ops)
                = CountIn(s, j, ops) + (IF s[j + 1] \in ops THEN 1 ELSE 0)
<1> DEFINE In(n) == {i \in 1 .. n : s[i] \in ops}
<1>1. \A n \in Nat : IsFiniteSet(In(n))
  <2> TAKE n \in Nat
  <2>1. IsFiniteSet(1 .. n)
    BY FS_Interval
  <2>2. In(n) \in SUBSET (1 .. n)
    OBVIOUS
  <2> QED BY <2>1, <2>2, FS_Subset
<1>2. CountIn(s, 0, ops) = 0
  <2>1. In(0) = {}
    OBVIOUS
  <2> QED BY <2>1, FS_EmptySet DEF CountIn
<1>3. CountIn(s, j, ops) \in Nat
  BY <1>1, FS_CardinalityType DEF CountIn
<1>4. CASE s[j + 1] \in ops
  <2>1. In(j + 1) = In(j) \cup {j + 1} /\ j + 1 \notin In(j)
    BY <1>4
  <2>2. Cardinality(In(j) \cup {j + 1}) = Cardinality(In(j)) + 1
    BY <1>1, <2>1, FS_AddElement
  <2> QED BY <1>2, <1>3, <1>4, <2>1, <2>2 DEF CountIn
<1>5. CASE s[j + 1] \notin ops
  <2>1. In(j + 1) = In(j)
    BY <1>5
  <2> QED BY <1>2, <1>3, <1>5, <2>1 DEF CountIn
<1> QED BY <1>4, <1>5

LEMMA CountGrows ==
    ASSUME NEW s, NEW ops, NEW i \in Nat, NEW j \in Nat, i <= j
    PROVE  CountIn(s, i, ops) <= CountIn(s, j, ops)
<1>1. IsFiniteSet(1 .. j)
  BY FS_Interval
<1>2. {n \in 1 .. j : s[n] \in ops} \in SUBSET (1 .. j)
  OBVIOUS
<1>3. IsFiniteSet({n \in 1 .. j : s[n] \in ops})
  BY <1>1, <1>2, FS_Subset
<1>4. {n \in 1 .. i : s[n] \in ops} \in SUBSET {n \in 1 .. j : s[n] \in ops}
  OBVIOUS
<1> QED BY <1>3, <1>4, FS_Subset DEF CountIn

LEMMA CountSame ==
    ASSUME NEW s, NEW t, NEW ops, NEW j, \A i \in 1 .. j : s[i] = t[i]
    PROVE  CountIn(s, j, ops) = CountIn(t, j, ops)
<1>1. {i \in 1 .. j : s[i] \in ops} = {i \in 1 .. j : t[i] \in ops}
  OBVIOUS
<1> QED BY <1>1 DEF CountIn

\* Syscalls are told apart by how many of their kind came before.
LEMMA CountTells ==
    ASSUME NEW s, NEW ops, NEW i \in Nat, NEW j \in Nat, i < j, s[j] \in ops
    PROVE  CountIn(s, i, ops) < CountIn(s, j, ops)
<1>1. j - 1 \in Nat /\ i <= j - 1 /\ (j - 1) + 1 = j
  OBVIOUS
<1>2. PICK h \in Nat : h = j - 1
  BY <1>1
<1>3. CountIn(s, i, ops) <= CountIn(s, h, ops)
  BY <1>1, <1>2, CountGrows
<1>4. CountIn(s, h + 1, ops) = CountIn(s, h, ops) + 1
  <2>1. s[h + 1] \in ops
    BY <1>1, <1>2
  <2> QED BY <2>1, CountLemma
<1>5. CountIn(s, i, ops) \in Nat /\ CountIn(s, h, ops) \in Nat
  BY CountLemma
<1>6. h + 1 = j
  BY <1>1, <1>2
<1> QED BY <1>3, <1>4, <1>5, <1>6

LEMMA InnerOpLemma ==
    ASSUME NEW S, NEW s \in Seq(S), NEW j \in 0 .. Len(s) - 1,
           s[j + 1] \in InnerOps
    PROVE  InnerOp(s, CountIn(s, j, InnerOps) + 1) = s[j + 1]
<1> DEFINE Q(i) == s[i] \in InnerOps
                   /\ CountIn(s, i, InnerOps) = CountIn(s, j, InnerOps) + 1
<1>1. Len(s) \in Nat /\ DOMAIN s = 1 .. Len(s) /\ j \in Nat
  OBVIOUS
<1>2. j + 1 \in DOMAIN s /\ Q(j + 1)
  BY <1>1, CountLemma
<1>3. ASSUME NEW i \in DOMAIN s, Q(i) PROVE i = j + 1
  <2>1. i \in Nat /\ j + 1 \in Nat
    BY <1>1
  <2>2. CountIn(s, i, InnerOps) = CountIn(s, j + 1, InnerOps)
    BY <1>2, <1>3
  <2>3. CountIn(s, i, InnerOps) \in Nat
    BY <2>1, CountLemma
  <2>4. CASE i < j + 1
    BY <1>2, <2>1, <2>2, <2>3, <2>4, CountTells
  <2>5. CASE j + 1 < i
    BY <1>3, <2>1, <2>2, <2>3, <2>5, CountTells
  <2> QED BY <2>1, <2>4, <2>5
<1>4. (CHOOSE i \in DOMAIN s : Q(i)) = j + 1
  BY <1>2, <1>3
<1> QED BY <1>4 DEF InnerOp

-----------------------------------------------------------------------------
(* Layouts.                                                                *)

OtherOps == {"Deploy", "StorageRead", "StorageWrite", "EmitEvent",
             "SendMessageToL1", "ReplaceClass"}

LEMMA OpsLemma == Offered \subseteq CallOps \cup OtherOps \cup Getters
<1>1. {Syscalls[i] : i \in Selectors} \subseteq CallOps \cup OtherOps \cup Getters
  <2> SUFFICES ASSUME NEW i \in 1 .. 18
               PROVE  Syscalls[i] \in CallOps \cup OtherOps \cup Getters
    BY DEF Selectors, Syscalls
  <2> QED BY DEF Syscalls, CallOps, OtherOps, Getters
<1> QED BY <1>1, DeprecatedAssumption

LEMMA SelectorLemma ==
    ASSUME NEW op \in Offered
    PROVE  selector(op) \in Selectors /\ Syscalls[selector(op)] = op
<1>1. \E i \in Selectors : Syscalls[i] = op
  BY DeprecatedAssumption
<1> QED BY <1>1 DEF selector

LEMMA SizeLemma ==
    ASSUME NEW op \in Offered
    PROVE  /\ RequestSize(op) \in 1 .. 6 /\ ResponseSize(op) \in 0 .. 3
           /\ SyscallSize(op) \in 2 .. 9
           /\ SyscallSize(op) = RequestSize(op) + ResponseSize(op)
           /\ ResponseSize(op) > 0 => response_offset(op) = RequestSize(op)
           /\ op \in CallOps => RequestSize(op) = 5 /\ ResponseSize(op) = 2
           /\ op \in {"StorageWrite", "EmitEvent", "SendMessageToL1", "ReplaceClass"} =>
                 ResponseSize(op) = 0
  BY OpsLemma DEF RequestSize, ResponseSize, SyscallSize, response_offset, CallOps,
     OtherOps, Getters

LEMMA AtLemma ==
    ASSUME NEW s, NEW j \in Nat
    PROVE  /\ At(s, 0) = 0 /\ At(s, j) \in Nat
           /\ s[j + 1] \in Offered => At(s, j + 1) = At(s, j) + SyscallSize(s[j + 1])
<1> DEFINE c1(n) == CountIn(s, n, {"Deploy"})
           c2(n) == CountIn(s, n, CallOps)
           c3(n) == CountIn(s, n, {"EmitEvent"})
           c4(n) == CountIn(s, n, {"SendMessageToL1"})
           c5(n) == CountIn(s, n, {"StorageRead", "StorageWrite", "GetTxSignature"})
           c6(n) == CountIn(s, n, {"ReplaceClass"} \cup (Getters \ {"GetTxSignature"}))
<1>1. \A n : At(s, n) = 9 * c1(n) + 7 * c2(n) + 5 * c3(n) + 4 * c4(n) + 3 * c5(n) + 2 * c6(n)
  BY DEF At
<1>2. /\ c1(0) = 0 /\ c2(0) = 0 /\ c3(0) = 0 /\ c4(0) = 0 /\ c5(0) = 0 /\ c6(0) = 0
      /\ c1(j) \in Nat /\ c2(j) \in Nat /\ c3(j) \in Nat /\ c4(j) \in Nat
      /\ c5(j) \in Nat /\ c6(j) \in Nat
  BY CountLemma
<1>3. /\ c1(j + 1) = c1(j) + (IF s[j + 1] \in {"Deploy"} THEN 1 ELSE 0)
      /\ c2(j + 1) = c2(j) + (IF s[j + 1] \in CallOps THEN 1 ELSE 0)
      /\ c3(j + 1) = c3(j) + (IF s[j + 1] \in {"EmitEvent"} THEN 1 ELSE 0)
      /\ c4(j + 1) = c4(j) + (IF s[j + 1] \in {"SendMessageToL1"} THEN 1 ELSE 0)
      /\ c5(j + 1) = c5(j) + (IF s[j + 1] \in {"StorageRead", "StorageWrite", "GetTxSignature"}
                             THEN 1 ELSE 0)
      /\ c6(j + 1) = c6(j) + (IF s[j + 1] \in {"ReplaceClass"} \cup (Getters \ {"GetTxSignature"})
                             THEN 1 ELSE 0)
  BY CountLemma
<1> HIDE DEF c1, c2, c3, c4, c5, c6
<1>4. At(s, 0) = 0 /\ At(s, j) \in Nat
  BY <1>1, <1>2
<1>5. ASSUME s[j + 1] \in Offered
      PROVE  At(s, j + 1) = At(s, j) + SyscallSize(s[j + 1])
  <2>1. PICK op \in Offered : op = s[j + 1]
    BY <1>5
  <2>2. op \in CallOps \cup OtherOps \cup Getters
    BY OpsLemma
  <2>3. SyscallSize(op) = 9 * (IF op \in {"Deploy"} THEN 1 ELSE 0)
          + 7 * (IF op \in CallOps THEN 1 ELSE 0)
          + 5 * (IF op \in {"EmitEvent"} THEN 1 ELSE 0)
          + 4 * (IF op \in {"SendMessageToL1"} THEN 1 ELSE 0)
          + 3 * (IF op \in {"StorageRead", "StorageWrite", "GetTxSignature"} THEN 1 ELSE 0)
          + 2 * (IF op \in {"ReplaceClass"} \cup (Getters \ {"GetTxSignature"}) THEN 1 ELSE 0)
    BY <2>2 DEF SyscallSize, RequestSize, ResponseSize, CallOps, OtherOps, Getters
  <2> QED BY <1>1, <1>2, <1>3, <2>1, <2>3
<1> QED BY <1>4, <1>5

LEMMA AtGrows ==
    ASSUME NEW s \in Seq(Offered), NEW i \in Nat, NEW j \in Nat, i < j, j <= Len(s)
    PROVE  /\ At(s, i) + SyscallSize(s[i + 1]) <= At(s, j)
           /\ At(s, i) < At(s, j)
<1>1. i + 1 \in 1 .. Len(s)
  OBVIOUS
<1>2. s[i + 1] \in Offered
  BY <1>1
<1>3. At(s, i + 1) = At(s, i) + SyscallSize(s[i + 1]) /\ At(s, i) \in Nat
      /\ SyscallSize(s[i + 1]) \in 2 .. 9
  BY <1>2, AtLemma, SizeLemma
<1>4. \A ops : /\ CountIn(s, i + 1, ops) <= CountIn(s, j, ops)
               /\ CountIn(s, i + 1, ops) \in Nat /\ CountIn(s, j, ops) \in Nat
  <2> TAKE ops
  <2>1. i + 1 \in Nat /\ i + 1 <= j
    OBVIOUS
  <2> QED BY <2>1, CountGrows, CountLemma
<1>5. At(s, i + 1) <= At(s, j)
  <2> DEFINE c(n, ops) == CountIn(s, n, ops)
             ops5 == {"StorageRead", "StorageWrite", "GetTxSignature"}
             ops6 == {"ReplaceClass"} \cup (Getters \ {"GetTxSignature"})
  <2>1. \A n : At(s, n) = 9 * c(n, {"Deploy"}) + 7 * c(n, CallOps)
                 + 5 * c(n, {"EmitEvent"}) + 4 * c(n, {"SendMessageToL1"})
                 + 3 * c(n, ops5) + 2 * c(n, ops6)
    BY DEF At
  <2>2. \A ops : /\ c(i + 1, ops) <= c(j, ops)
                 /\ c(i + 1, ops) \in Nat /\ c(j, ops) \in Nat
    BY <1>4
  <2> HIDE DEF c, ops5, ops6
  <2>3. PICK a1, a2, a3, a4, a5, a6, b1, b2, b3, b4, b5, b6 :
           /\ a1 = c(i + 1, {"Deploy"}) /\ b1 = c(j, {"Deploy"})
           /\ a2 = c(i + 1, CallOps) /\ b2 = c(j, CallOps)
           /\ a3 = c(i + 1, {"EmitEvent"}) /\ b3 = c(j, {"EmitEvent"})
           /\ a4 = c(i + 1, {"SendMessageToL1"}) /\ b4 = c(j, {"SendMessageToL1"})
           /\ a5 = c(i + 1, ops5) /\ b5 = c(j, ops5)
           /\ a6 = c(i + 1, ops6) /\ b6 = c(j, ops6)
    OBVIOUS
  <2>4. /\ a1 <= b1 /\ a2 <= b2 /\ a3 <= b3 /\ a4 <= b4 /\ a5 <= b5 /\ a6 <= b6
        /\ a1 \in Nat /\ a2 \in Nat /\ a3 \in Nat /\ a4 \in Nat /\ a5 \in Nat /\ a6 \in Nat
        /\ b1 \in Nat /\ b2 \in Nat /\ b3 \in Nat /\ b4 \in Nat /\ b5 \in Nat /\ b6 \in Nat
    BY <2>2, <2>3
  <2>5. /\ At(s, i + 1) = 9 * a1 + 7 * a2 + 5 * a3 + 4 * a4 + 3 * a5 + 2 * a6
        /\ At(s, j) = 9 * b1 + 7 * b2 + 5 * b3 + 4 * b4 + 3 * b5 + 2 * b6
    BY <2>1, <2>3
  <2> QED BY <2>4, <2>5
<1>6. At(s, j) \in Nat
  BY AtLemma
<1> QED BY <1>3, <1>5, <1>6

-----------------------------------------------------------------------------
(* Functions as sequences.                                                 *)

\* A function on 1 .. n is a sequence of length n.
LEMMA FunctionIsSeq ==
    ASSUME NEW n \in Nat, NEW q, q = [i \in 1 .. n |-> q[i]]
    PROVE  Len(q) = n /\ \A S : (\A i \in 1 .. n : q[i] \in S) => q \in Seq(S)
<1>1. PICK S : S = {q[i] : i \in 1 .. n}
  OBVIOUS
<1>2. q \in [1 .. n -> S]
  BY <1>1
<1>3. q \in Seq(S)
  BY <1>2
<1>4. Len(q) = n
  BY <1>2, <1>3
<1>5. ASSUME NEW T, \A i \in 1 .. n : q[i] \in T
      PROVE  q \in Seq(T)
  <2>1. q \in [1 .. n -> T]
    BY <1>5
  <2> QED BY <2>1
<1> QED BY <1>4, <1>5

-----------------------------------------------------------------------------
(* An entry point asks.                                                    *)

\* The n cells go to the end of segment m.
Ends(m, p, cells, n) ==
    /\ p \in Nat /\ n \in Nat
    /\ DOMAIN m = 0 .. p - 1 /\ DOMAIN cells = 1 .. n /\ Len(cells) = n

LEMMA InsertLemma ==
    ASSUME NEW m, NEW cells, NEW p, NEW n, Ends(m, p, cells, n),
           NEW w, w = Insert(m, p, cells)
    PROVE  /\ CanInsert(m, p, cells)
           /\ DOMAIN w = 0 .. p + n - 1
           /\ \A o \in 0 .. p - 1 : w[o] = m[o]
           /\ \A i \in 1 .. n : w[p + i - 1] = cells[i]
<1>0. /\ p \in Nat /\ n \in Nat
      /\ DOMAIN m = 0 .. p - 1 /\ DOMAIN cells = 1 .. n /\ Len(cells) = n
  BY DEF Ends
<1>1. w = [o \in 0 .. p + n - 1 |-> IF o \in 0 .. p - 1 THEN m[o] ELSE cells[o - p + 1]]
  <2>1. (0 .. p - 1) \cup p .. (p + n - 1) = 0 .. p + n - 1
    BY <1>0
  <2> QED BY <1>0, <2>1 DEF Insert
<1>2. CanInsert(m, p, cells)
  BY <1>0 DEF CanInsert
<1>3. DOMAIN w = 0 .. p + n - 1
  BY <1>1
<1>4. \A o \in 0 .. p - 1 : w[o] = m[o]
  BY <1>0, <1>1
<1>5. \A i \in 1 .. n : w[p + i - 1] = cells[i]
  BY <1>0, <1>1
<1> QED BY <1>2, <1>3, <1>4, <1>5

\* The segment m with a request for op and the response cells behind it.
Extends(w, m, p, op, cells) ==
    /\ DOMAIN w = 0 .. p + SyscallSize(op) - 1
    /\ \A o \in 0 .. p - 1 : w[o] = m[o]
    /\ w[p] = Felt(selector(op))
    /\ \A i \in 1 .. ResponseSize(op) : w[p + RequestSize(op) + i - 1] = cells[i]

LEMMA RequestLemma ==
    ASSUME NEW op \in Offered
    PROVE  /\ RequestSize(op) \in Nat /\ DOMAIN Request(op) = 1 .. RequestSize(op)
           /\ Len(Request(op)) = RequestSize(op)
           /\ Request(op)[1] = Felt(selector(op))
<1>1. PICK n \in 1 .. 6 : n = RequestSize(op)
  BY SizeLemma
<1>2. Request(op) = [i \in 1 .. n |-> IF i = 1 THEN Felt(selector(op)) ELSE Felt(0)]
  BY <1>1 DEF Request
<1>3. PICK q : q = Request(op)
  OBVIOUS
<1>4. DOMAIN q = 1 .. n /\ q[1] = Felt(selector(op))
  BY <1>2, <1>3
<1>5. n \in Nat /\ q = [i \in 1 .. n |-> q[i]]
  BY <1>2, <1>3
<1>6. Len(q) = n
  BY <1>5, FunctionIsSeq
<1> QED BY <1>1, <1>3, <1>4, <1>5, <1>6

LEMMA LaidLemma ==
    ASSUME NEW m, NEW p \in Nat, DOMAIN m = 0 .. p - 1, NEW op \in Offered,
           NEW laid, laid = Insert(m, p, Request(op))
    PROVE  /\ DOMAIN laid = 0 .. p + RequestSize(op) - 1
           /\ \A o \in 0 .. p - 1 : laid[o] = m[o]
           /\ laid[p] = Felt(selector(op))
<1>1. PICK n, q : n = RequestSize(op) /\ q = Request(op)
  OBVIOUS
<1>2. n \in Nat /\ n >= 1 /\ DOMAIN q = 1 .. n /\ Len(q) = n
      /\ q[1] = Felt(selector(op))
  BY <1>1, RequestLemma, SizeLemma
<1>3. laid = Insert(m, p, q) /\ Ends(m, p, q, n)
  BY <1>1, <1>2 DEF Ends
<1>4. /\ DOMAIN laid = 0 .. p + n - 1
      /\ \A o \in 0 .. p - 1 : laid[o] = m[o]
      /\ \A i \in 1 .. n : laid[p + i - 1] = q[i]
  BY <1>3, InsertLemma
<1>5. laid[p] = q[1]
  <2>1. p + 1 - 1 = p /\ 1 \in 1 .. n
    BY <1>2
  <2> QED BY <1>4, <2>1
<1> QED BY <1>1, <1>2, <1>4, <1>5

\* A handler without a response, ...
LEMMA SilentLemma ==
    ASSUME NEW m, NEW p \in Nat, DOMAIN m = 0 .. p - 1, NEW op \in Offered,
           ResponseSize(op) = 0, NEW cells
    PROVE  Extends(Insert(m, p, Request(op)), m, p, op, cells)
<1>1. PICK w : w = Insert(m, p, Request(op))
  OBVIOUS
<1>2. /\ DOMAIN w = 0 .. p + RequestSize(op) - 1
      /\ \A o \in 0 .. p - 1 : w[o] = m[o]
      /\ w[p] = Felt(selector(op))
  BY <1>1, LaidLemma
<1>3. SyscallSize(op) = RequestSize(op)
  BY SizeLemma
<1>4. Extends(w, m, p, op, cells)
  BY <1>2, <1>3 DEF Extends
<1> QED BY <1>1, <1>4

\* ... and one with a response.
LEMMA ResponseLemma ==
    ASSUME NEW m, NEW p \in Nat, DOMAIN m = 0 .. p - 1, NEW op \in Offered,
           ResponseSize(op) > 0, NEW cells, DOMAIN cells = 1 .. ResponseSize(op),
           Len(cells) = ResponseSize(op)
    PROVE  LET laid == Insert(m, p, Request(op))
               at == p + response_offset(op)
           IN  /\ CanInsert(laid, at, cells)
               /\ Extends(Insert(laid, at, cells), m, p, op, cells)
<1>1. PICK laid : laid = Insert(m, p, Request(op))
  OBVIOUS
<1>2. PICK n, k, at : n = RequestSize(op) /\ k = ResponseSize(op) /\ at = p + response_offset(op)
  OBVIOUS
<1>3. /\ n \in 1 .. 6 /\ k \in 1 .. 3 /\ at = p + n /\ SyscallSize(op) = n + k
      /\ at \in Nat /\ k \in Nat
  BY <1>2, SizeLemma
<1>4. /\ DOMAIN laid = 0 .. at - 1
      /\ \A o \in 0 .. p - 1 : laid[o] = m[o]
      /\ laid[p] = Felt(selector(op))
  <2>1. /\ DOMAIN laid = 0 .. p + RequestSize(op) - 1
        /\ \A o \in 0 .. p - 1 : laid[o] = m[o]
        /\ laid[p] = Felt(selector(op))
    BY <1>1, LaidLemma
  <2> QED BY <1>2, <1>3, <2>1
<1>5. PICK w : w = Insert(laid, at, cells)
  OBVIOUS
<1>6. DOMAIN cells = 1 .. k /\ Len(cells) = k
  BY <1>2
<1>7. /\ CanInsert(laid, at, cells)
      /\ DOMAIN w = 0 .. at + k - 1
      /\ \A o \in 0 .. at - 1 : w[o] = laid[o]
      /\ \A i \in 1 .. k : w[at + i - 1] = cells[i]
  <2>1. Ends(laid, at, cells, k)
    BY <1>3, <1>4, <1>6 DEF Ends
  <2> QED BY <1>5, <2>1, InsertLemma
<1>8. DOMAIN w = 0 .. p + SyscallSize(op) - 1
  BY <1>3, <1>7
<1>9. \A o \in 0 .. p - 1 : w[o] = m[o]
  BY <1>3, <1>4, <1>7
<1>10. w[p] = Felt(selector(op))
  BY <1>3, <1>4, <1>7
<1>11. \A i \in 1 .. ResponseSize(op) : w[p + RequestSize(op) + i - 1] = cells[i]
  BY <1>2, <1>3, <1>7
<1>12. Extends(w, m, p, op, cells)
  BY <1>8, <1>9, <1>10, <1>11 DEF Extends
<1> QED BY <1>1, <1>2, <1>5, <1>7, <1>12

LEMMA MeantSame ==
    ASSUME NEW f, NEW g, f.script = g.script, f.call = g.call, NEW j, NEW tx
    PROVE  MeantCells(f, j, tx) = MeantCells(g, j, tx) /\ MeantResult(f, j) = MeantResult(g, j)
  BY DEF MeantCells, MeantResult

\* The cells of a syscall asked for lie before the end of the segment.
LEMMA FrameCells ==
    ASSUME NEW f, FrameTypes(f), FrameLaid(f), NEW j \in 0 .. f.asked - 1
    PROVE  /\ j \in Nat /\ j + 1 \in 1 .. Len(f.script) /\ f.script[j + 1] \in Offered
           /\ At(f.script, j) \in Nat /\ f.ptr \in Nat
           /\ \A o \in 0 .. SyscallSize(f.script[j + 1]) - 1 :
                 At(f.script, j) + o \in 0 .. f.ptr - 1
<1>1. PICK s, n : s = f.script /\ n = f.asked
  OBVIOUS
<1>2. s \in Seq(Offered) /\ n \in 0 .. Len(s) /\ f.ptr = At(s, n)
  BY <1>1 DEF FrameTypes, FrameLaid
<1>3. j \in Nat /\ n \in Nat /\ j < n /\ n <= Len(s) /\ j + 1 \in 1 .. Len(s)
  BY <1>1, <1>2
<1>4. s[j + 1] \in Offered
  BY <1>2, <1>3
<1>5. At(s, j) + SyscallSize(s[j + 1]) <= At(s, n)
  BY <1>2, <1>3, AtGrows
<1>6. At(s, j) \in Nat /\ At(s, n) \in Nat /\ SyscallSize(s[j + 1]) \in 2 .. 9
  BY <1>3, <1>4, AtLemma, SizeLemma
<1>7. \A o \in 0 .. SyscallSize(s[j + 1]) - 1 : At(s, j) + o \in 0 .. At(s, n) - 1
  BY <1>5, <1>6
<1> QED BY <1>1, <1>2, <1>3, <1>4, <1>6, <1>7

\* The frame after a syscall: as before, with one more syscall laid out.
Asked(f, op, w) ==
    [f EXCEPT !.mem = w, !.asked = @ + 1, !.ptr = f.ptr + SyscallSize(op)]

LEMMA AskedFields ==
    ASSUME NEW f, FrameTypes(f), NEW op, NEW w, NEW g, g = Asked(f, op, w)
    PROVE  /\ DOMAIN g = FrameFields
           /\ g.call = f.call /\ g.script = f.script /\ g.asked = f.asked + 1
           /\ g.mem = w /\ g.ptr = f.ptr + SyscallSize(op) /\ g.pass = f.pass
           /\ g.os_ptr = f.os_ptr /\ g.os_done = f.os_done /\ g.retdata = f.retdata
  BY DEF Asked, FrameTypes, FrameFields

LEMMA AskedTypes ==
    ASSUME NEW f, FrameTypes(f), f.pass = "code", f.asked < Len(f.script),
           NEW op, NEW w, NEW g, g = Asked(f, op, w)
    PROVE  FrameTypes(g) /\ Here(g) = 0 /\ Here(f) = 0
<1>1. Here(f) = 0 /\ f.asked \in Nat /\ f.asked + 1 \in 0 .. Len(f.script)
  BY DEF FrameTypes
<1>2. /\ DOMAIN g = FrameFields
      /\ g.call = f.call /\ g.script = f.script /\ g.asked = f.asked + 1
      /\ g.pass = f.pass /\ g.os_done = f.os_done
  BY AskedFields
<1>3. Here(g) = 0
  BY <1>1, <1>2 DEF Here
<1> QED BY <1>1, <1>2, <1>3 DEF FrameTypes

\* f asks for its next syscall, op, gets cells for an answer, and becomes g.
Asking(f, op, w, cells, g) ==
    /\ FrameTypes(f) /\ FrameLaid(f) /\ f.pass = "code"
    /\ f.asked < Len(f.script) /\ op = f.script[f.asked + 1]
    /\ Extends(w, f.mem, f.ptr, op, cells)
    /\ g = Asked(f, op, w)

LEMMA AskedLaid ==
    ASSUME NEW f, NEW op, NEW w, NEW cells, NEW g, Asking(f, op, w, cells, g)
    PROVE  /\ FrameLaid(g)
           /\ \A j \in 0 .. f.asked - 1 : \A o \in 0 .. SyscallSize(f.script[j + 1]) - 1 :
                 g.mem[At(f.script, j) + o] = f.mem[At(f.script, j) + o]
<1> USE DEF Asking
<1>1. PICK s, n, p : s = f.script /\ n = f.asked /\ p = f.ptr
  OBVIOUS
<1>2. /\ s \in Seq(Offered) /\ n \in Nat /\ n < Len(s) /\ p = At(s, n) /\ op = s[n + 1]
      /\ Here(f) = 0 /\ f.os_ptr = At(s, 0)
  BY <1>1 DEF FrameTypes, FrameLaid
<1>3. op \in Offered
  BY <1>2
<1>4. At(s, n + 1) = p + SyscallSize(op) /\ p \in Nat /\ At(s, n + 1) \in Nat
  <2>1. At(s, n + 1) = At(s, n) + SyscallSize(s[n + 1]) /\ At(s, n) \in Nat
    BY <1>2, <1>3, AtLemma
  <2> QED BY <1>2, <1>3, <2>1, SizeLemma
<1>5. /\ g.script = s /\ g.asked = n + 1 /\ g.mem = w /\ g.ptr = p + SyscallSize(op)
      /\ g.os_ptr = f.os_ptr /\ g.os_done = f.os_done
  BY <1>1, AskedFields
<1>6. /\ DOMAIN w = 0 .. p + SyscallSize(op) - 1
      /\ \A o \in 0 .. p - 1 : w[o] = f.mem[o]
      /\ w[p] = Felt(selector(op))
  BY <1>1 DEF Extends
<1>7. ASSUME NEW j \in 0 .. n - 1, NEW o \in 0 .. SyscallSize(s[j + 1]) - 1
      PROVE  w[At(s, j) + o] = f.mem[At(s, j) + o]
  <2>1. At(s, j) + o \in 0 .. p - 1
    BY <1>1, FrameCells
  <2> QED BY <1>6, <2>1
<1>8. ASSUME NEW j \in 0 .. n
      PROVE  w[At(s, j)] = Felt(selector(s[j + 1]))
  <2>1. CASE j = n
    BY <1>2, <1>6, <2>1
  <2>2. CASE j # n
    <3>1. j \in 0 .. n - 1
      BY <1>2, <2>2
    <3>2. /\ s[j + 1] \in Offered /\ At(s, j) \in Nat
      BY <1>1, <3>1, FrameCells
    <3>3. 0 \in 0 .. SyscallSize(s[j + 1]) - 1 /\ At(s, j) + 0 = At(s, j)
      BY <3>2, SizeLemma
    <3>4. w[At(s, j)] = f.mem[At(s, j)]
      BY <1>7, <3>1, <3>3
    <3>5. f.mem[At(s, j)] = Felt(selector(s[j + 1]))
      BY <1>1, <3>1 DEF FrameLaid
    <3> QED BY <3>4, <3>5
  <2> QED BY <2>1, <2>2
<1>9. FrameLaid(g)
  <2>1. Here(g) = Here(f)
    BY <1>5 DEF Here
  <2>2. g.ptr = At(g.script, g.asked) /\ DOMAIN g.mem = 0 .. g.ptr - 1
    <3>1. At(g.script, g.asked) = At(s, n + 1)
      BY <1>5
    <3>2. PICK e \in Nat : e = At(s, n + 1) /\ e = p + SyscallSize(op)
      BY <1>4
    <3>3. PICK z \in 2 .. 9 : z = SyscallSize(op)
      BY <1>3, SizeLemma
    <3>4. e = p + z /\ g.ptr = p + z /\ DOMAIN w = 0 .. p + z - 1
      BY <1>5, <1>6, <3>2, <3>3, Zenon
    <3>5. g.ptr = e /\ DOMAIN w = 0 .. e - 1
      BY <1>4, <3>4
    <3> QED BY <1>5, <3>1, <3>2, <3>5
  <2>3. g.os_ptr = At(g.script, Here(g))
    BY <1>2, <1>5, <2>1
  <2>4. \A j \in 0 .. g.asked - 1 : g.mem[At(g.script, j)] = Felt(selector(g.script[j + 1]))
    <3>1. (n + 1) - 1 = n
      BY <1>2
    <3> QED BY <1>5, <1>8, <3>1
  <2> QED BY <2>2, <2>3, <2>4 DEF FrameLaid
<1> QED BY <1>1, <1>5, <1>7, <1>9

\* One array of temporary segments has all that another has.
Keeps(temp, more) == \A t \in DOMAIN temp : t \in DOMAIN more /\ more[t] = temp[t]

\* The answer to syscall number j + 1, in the cells of its response.
CellsRight(f, op, cells, temp, tx, exempt) ==
    /\ op \in CallOps =>
          /\ cells[1] = Felt(Len(MeantResult(f, f.asked)))
          /\ \E t \in DOMAIN temp : /\ t \in Int /\ cells[2] = Ptr(-t, 0)
                                    /\ temp[t] = MeantResult(f, f.asked)
    /\ op \notin CallOps \cup exempt =>
          \A i \in 1 .. ResponseSize(op) : cells[i] = MeantCells(f, f.asked, tx)[i]

LEMMA AskedAnswered ==
    ASSUME NEW f, NEW op, NEW w, NEW cells, NEW g, Asking(f, op, w, cells, g),
           NEW temp, NEW more, Keeps(temp, more), NEW tx, NEW exempt,
           FrameAnswered(f, temp, tx, exempt), CellsRight(f, op, cells, more, tx, exempt)
    PROVE  /\ FrameAnswered(g, more, tx, exempt)
           /\ \A j \in 0 .. f.asked - 1 : f.script[j + 1] \in CallOps => Guess(g, j) = Guess(f, j)
           /\ op \in CallOps => Guess(g, f.asked) = -cells[2].seg
<1> USE DEF Asking
<1>1. PICK s, n, p : s = f.script /\ n = f.asked /\ p = f.ptr
  OBVIOUS
<1>2. /\ s \in Seq(Offered) /\ n \in Nat /\ n < Len(s) /\ p = At(s, n) /\ op = s[n + 1]
  BY <1>1 DEF FrameTypes, FrameLaid
<1>3. op \in Offered
  BY <1>2
<1>4. /\ g.script = s /\ g.asked = n + 1 /\ g.mem = w /\ g.call = f.call
  BY <1>1, AskedFields
<1>5. \A i \in 1 .. ResponseSize(op) : w[p + RequestSize(op) + i - 1] = cells[i]
  BY <1>1 DEF Extends
<1>6. ASSUME NEW j \in 0 .. n - 1, NEW o \in 0 .. SyscallSize(s[j + 1]) - 1
      PROVE  w[At(s, j) + o] = f.mem[At(s, j) + o]
  <2> HIDE DEF Asking
  <2>1. \A h \in 0 .. f.asked - 1 : \A e \in 0 .. SyscallSize(f.script[h + 1]) - 1 :
           g.mem[At(f.script, h) + e] = f.mem[At(f.script, h) + e]
    BY AskedLaid
  <2> QED BY <1>1, <1>4, <2>1
<1>7. \A j : MeantCells(g, j, tx) = MeantCells(f, j, tx) /\ MeantResult(g, j) = MeantResult(f, j)
  BY <1>1, <1>4, MeantSame
<1>8. ASSUME NEW j \in 0 .. n - 1, s[j + 1] \in CallOps
      PROVE  Guess(g, j) = Guess(f, j) /\ GuessRight(g, j, more)
  <2>1. s[j + 1] \in Offered /\ At(s, j) \in Nat
    BY <1>1, FrameCells
  <2>2. SyscallSize(s[j + 1]) = 7
    BY <1>8, <2>1, SizeLemma
  <2>3. w[At(s, j) + 5] = f.mem[At(s, j) + 5] /\ w[At(s, j) + 6] = f.mem[At(s, j) + 6]
    <3>1. 5 \in 0 .. SyscallSize(s[j + 1]) - 1 /\ 6 \in 0 .. SyscallSize(s[j + 1]) - 1
      BY <2>2
    <3> QED BY <1>6, <3>1
  <2>4. GuessRight(f, j, temp)
    BY <1>1, <1>8 DEF FrameAnswered
  <2>5. Guess(g, j) = Guess(f, j)
    BY <1>1, <1>4, <2>3 DEF Guess
  <2>6. /\ g.mem[At(g.script, j) + 5] = f.mem[At(s, j) + 5]
        /\ g.mem[At(g.script, j) + 6] = f.mem[At(s, j) + 6]
    BY <1>4, <2>3
  <2>7. more[Guess(f, j)] = temp[Guess(f, j)] /\ Guess(f, j) \in DOMAIN more
    BY <2>4 DEF GuessRight, Keeps
  <2> QED BY <1>1, <1>7, <2>4, <2>5, <2>6, <2>7 DEF GuessRight
<1>9. ASSUME NEW j \in 0 .. n - 1, s[j + 1] \notin CallOps \cup exempt
      PROVE  AnswerRight(g, j, tx)
  <2>1. s[j + 1] \in Offered /\ At(s, j) \in Nat
    BY <1>1, FrameCells
  <2>2. PICK a, b : a = RequestSize(s[j + 1]) /\ b = ResponseSize(s[j + 1])
    OBVIOUS
  <2>3. a \in 1 .. 6 /\ b \in 0 .. 3 /\ SyscallSize(s[j + 1]) = a + b
    BY <2>1, <2>2, SizeLemma
  <2>4. AnswerRight(f, j, tx)
    BY <1>1, <1>9 DEF FrameAnswered
  <2>5. ASSUME NEW i \in 1 .. b
        PROVE  w[At(s, j) + a + i - 1] = MeantCells(f, j, tx)[i]
    <3>1. At(s, j) + a + i - 1 = At(s, j) + (a + i - 1)
          /\ a + i - 1 \in 0 .. SyscallSize(s[j + 1]) - 1
      BY <2>1, <2>3
    <3>2. w[At(s, j) + a + i - 1] = f.mem[At(s, j) + a + i - 1]
      BY <1>6, <3>1
    <3>3. f.mem[At(s, j) + a + i - 1] = MeantCells(f, j, tx)[i]
      BY <1>1, <2>2, <2>4 DEF AnswerRight
    <3> QED BY <3>2, <3>3
  <2> QED BY <1>4, <1>7, <2>2, <2>5 DEF AnswerRight
<1>10. ASSUME op \in CallOps
       PROVE  Guess(g, n) = -cells[2].seg /\ GuessRight(g, n, more)
  <2>1. RequestSize(op) = 5 /\ ResponseSize(op) = 2
    BY <1>3, <1>10, SizeLemma
  <2>2. p \in Nat
    BY <1>2, AtLemma
  <2>3. w[p + 5] = cells[1] /\ w[p + 6] = cells[2]
    <3>1. /\ p + 5 + 1 - 1 = p + 5 /\ p + 5 + 2 - 1 = p + 6
          /\ 1 \in 1 .. ResponseSize(op) /\ 2 \in 1 .. ResponseSize(op)
      BY <2>1, <2>2
    <3>2. w[p + RequestSize(op) + 1 - 1] = cells[1] /\ w[p + RequestSize(op) + 2 - 1] = cells[2]
      BY <1>5, <3>1
    <3> QED BY <2>1, <3>1, <3>2
  <2>4. PICK t \in DOMAIN more : /\ t \in Int /\ cells[2] = Ptr(-t, 0)
                                 /\ more[t] = MeantResult(f, n)
    BY <1>1, <1>10 DEF CellsRight
  <2>5. cells[1] = Felt(Len(MeantResult(f, n)))
    BY <1>1, <1>10 DEF CellsRight
  <2>6. Guess(g, n) = -cells[2].seg
    BY <1>2, <1>4, <2>3 DEF Guess
  <2>7. -cells[2].seg = t /\ Ptr(-t, 0) = cells[2]
    BY <2>4 DEF Ptr
  <2>8. /\ g.mem[At(g.script, n) + 5] = cells[1]
        /\ g.mem[At(g.script, n) + 6] = cells[2]
    BY <1>2, <1>4, <2>3
  <2> QED BY <1>7, <2>4, <2>5, <2>6, <2>7, <2>8 DEF GuessRight
<1>11. ASSUME op \notin CallOps \cup exempt
       PROVE  AnswerRight(g, n, tx)
  <2>1. \A i \in 1 .. ResponseSize(op) : cells[i] = MeantCells(f, n, tx)[i]
    BY <1>1, <1>11 DEF CellsRight
  <2> QED BY <1>2, <1>4, <1>5, <1>7, <2>1 DEF AnswerRight
<1>12. FrameAnswered(g, more, tx, exempt)
  <2> SUFFICES ASSUME NEW j \in 0 .. n
               PROVE  /\ s[j + 1] \in CallOps => GuessRight(g, j, more)
                      /\ s[j + 1] \notin CallOps \cup exempt => AnswerRight(g, j, tx)
    <3>1. (n + 1) - 1 = n
      BY <1>2
    <3> QED BY <1>4, <3>1 DEF FrameAnswered
  <2>1. CASE j = n
    BY <1>2, <1>10, <1>11, <2>1
  <2>2. CASE j # n
    <3>1. j \in 0 .. n - 1
      BY <1>2, <2>2
    <3> QED BY <1>8, <1>9, <3>1
  <2> QED BY <2>1, <2>2
<1> QED BY <1>1, <1>8, <1>10, <1>12

-----------------------------------------------------------------------------
(* What is left in the iterators.                                          *)

LEMMA TailLemma ==
    ASSUME NEW m \in Nat, NEW q, q = [n \in 1 .. m |-> q[n]]
    PROVE  /\ Len(q) = m /\ (q = <<>> <=> m = 0)
           /\ m > 0 => Head(q) = q[1] /\ Tail(q) = [n \in 1 .. m - 1 |-> q[n + 1]]
<1>1. PICK S : S = {q[n] : n \in 1 .. m}
  OBVIOUS
<1>2. q \in Seq(S) /\ Len(q) = m
  BY <1>1, FunctionIsSeq
<1>3. q = <<>> <=> m = 0
  BY <1>2
<1>4. m > 0 => Head(q) = q[1] /\ Tail(q) = [n \in 1 .. m - 1 |-> q[n + 1]]
  BY <1>2
<1> QED BY <1>2, <1>3, <1>4

\* g has asked for one syscall, op, more than f.
Next1(f, op, g) ==
    /\ FrameTypes(f) /\ f.asked < Len(f.script) /\ op = f.script[f.asked + 1]
    /\ g.script = f.script /\ g.asked = f.asked + 1

LEMMA LeftLemma ==
    ASSUME NEW f, FrameTypes(f), NEW ops
    PROVE  /\ Left(f, ops) \in Nat /\ CountIn(f.script, f.asked, ops) \in Nat
           /\ f.asked = Len(f.script) => Left(f, ops) = 0
           /\ f.asked = 0 => /\ Left(f, ops) = CountIn(f.script, Len(f.script), ops)
                             /\ CountIn(f.script, f.asked, ops) = 0
<1>1. PICK s, n, m : s = f.script /\ n = f.asked /\ m = Len(s)
  OBVIOUS
<1>2. n \in Nat /\ m \in Nat /\ n <= m
  BY <1>1 DEF FrameTypes
<1>3. CountIn(s, n, ops) <= CountIn(s, m, ops)
  BY <1>2, CountGrows
<1>4. CountIn(s, n, ops) \in Nat /\ CountIn(s, m, ops) \in Nat /\ CountIn(s, 0, ops) = 0
  BY <1>2, CountLemma
<1>5. Left(f, ops) = CountIn(s, m, ops) - CountIn(s, n, ops)
  BY <1>1 DEF Left
<1> QED BY <1>1, <1>3, <1>4, <1>5

LEMMA LeftNext ==
    ASSUME NEW f, NEW op, NEW g, Next1(f, op, g), NEW ops
    PROVE  /\ op \in ops =>
                /\ Left(f, ops) > 0 /\ Left(g, ops) = Left(f, ops) - 1
                /\ CountIn(g.script, g.asked, ops) = CountIn(f.script, f.asked, ops) + 1
           /\ op \notin ops =>
                /\ Left(g, ops) = Left(f, ops)
                /\ CountIn(g.script, g.asked, ops) = CountIn(f.script, f.asked, ops)
<1>1. PICK s, n, m : s = f.script /\ n = f.asked /\ m = Len(s)
  OBVIOUS
<1>2. n \in Nat /\ m \in Nat /\ n < m /\ n + 1 \in Nat /\ n + 1 <= m
      /\ op = s[n + 1] /\ g.script = s /\ g.asked = n + 1
  BY <1>1 DEF FrameTypes, Next1
<1>3. CountIn(s, n + 1, ops) <= CountIn(s, m, ops)
  BY <1>2, CountGrows
<1>4. /\ CountIn(s, n, ops) \in Nat /\ CountIn(s, m, ops) \in Nat
      /\ CountIn(s, n + 1, ops) = CountIn(s, n, ops) + (IF op \in ops THEN 1 ELSE 0)
  BY <1>2, CountLemma
<1>5. /\ Left(f, ops) = CountIn(s, m, ops) - CountIn(s, n, ops)
      /\ Left(g, ops) = CountIn(s, m, ops) - CountIn(s, n + 1, ops)
  BY <1>1, <1>2 DEF Left
<1> QED BY <1>1, <1>2, <1>3, <1>4, <1>5

LEMMA ResultsNext ==
    ASSUME NEW f, NEW op, NEW g, Next1(f, op, g)
    PROVE  /\ op \in InnerOps => /\ ResultsLeft(f) # <<>>
                                 /\ Head(ResultsLeft(f)) = MeantResult(f, f.asked)
                                 /\ ResultsLeft(g) = Tail(ResultsLeft(f))
           /\ op \notin InnerOps => ResultsLeft(g) = ResultsLeft(f)
<1>1. PICK s, c, k, q : /\ s = f.script /\ c = CountIn(f.script, f.asked, InnerOps)
                        /\ k = Left(f, InnerOps) /\ q = ResultsLeft(f)
  OBVIOUS
<1>2. c \in Nat /\ k \in Nat
  BY <1>1, LeftLemma DEF Next1
<1>3. q = [n \in 1 .. k |-> ResultOf(InnerOp(s, c + n), c + n)]
  BY <1>1 DEF ResultsLeft
<1>4. ASSUME op \in InnerOps
      PROVE  /\ q # <<>> /\ Head(q) = MeantResult(f, f.asked) /\ ResultsLeft(g) = Tail(q)
  <2>1. k > 0 /\ Left(g, InnerOps) = k - 1 /\ CountIn(g.script, g.asked, InnerOps) = c + 1
    BY <1>1, <1>4, LeftNext
  <2>2. q = [n \in 1 .. k |-> q[n]]
    BY <1>3
  <2>3. q # <<>> /\ Head(q) = q[1] /\ Tail(q) = [n \in 1 .. k - 1 |-> q[n + 1]]
    BY <1>2, <2>1, <2>2, TailLemma
  <2>4. q[1] = ResultOf(InnerOp(s, c + 1), c + 1)
    BY <1>2, <1>3, <2>1
  <2>5. InnerOp(s, c + 1) = op
    <3>1. s \in Seq(Offered) /\ f.asked \in 0 .. Len(s) - 1 /\ s[f.asked + 1] = op
      BY <1>1 DEF Next1, FrameTypes
    <3> QED BY <1>1, <1>4, <3>1, InnerOpLemma
  <2>6. MeantResult(f, f.asked) = ResultOf(op, c + 1)
    BY <1>1 DEF MeantResult, Next1
  <2>7. ResultsLeft(g) = [n \in 1 .. k - 1 |-> ResultOf(InnerOp(s, (c + 1) + n), (c + 1) + n)]
    BY <1>1, <2>1 DEF ResultsLeft, Next1
  <2>8. \A n \in 1 .. k - 1 : q[n + 1] = ResultOf(InnerOp(s, (c + 1) + n), (c + 1) + n)
    <3> TAKE n \in 1 .. k - 1
    <3>1. n + 1 \in 1 .. k /\ c + (n + 1) = (c + 1) + n
      BY <1>2
    <3>2. q[n + 1] = ResultOf(InnerOp(s, c + (n + 1)), c + (n + 1))
      BY <1>3, <3>1
    <3> QED BY <3>1, <3>2
  <2> QED BY <2>3, <2>4, <2>5, <2>6, <2>7, <2>8
<1>5. ASSUME op \notin InnerOps
      PROVE  ResultsLeft(g) = q
  <2>1. Left(g, InnerOps) = k /\ CountIn(g.script, g.asked, InnerOps) = c
    BY <1>1, <1>5, LeftNext
  <2> QED BY <1>1, <1>3, <2>1 DEF ResultsLeft, Next1
<1> QED BY <1>1, <1>4, <1>5

LEMMA DeployedNext ==
    ASSUME NEW f, NEW op, NEW g, Next1(f, op, g)
    PROVE  /\ op = "Deploy" =>
                /\ DeployedLeft(f) # <<>>
                /\ Head(DeployedLeft(f)) = DeployedAt(CountIn(f.script, f.asked, {"Deploy"}) + 1)
                /\ DeployedLeft(g) = Tail(DeployedLeft(f))
           /\ op # "Deploy" => DeployedLeft(g) = DeployedLeft(f)
<1>1. PICK c, k, q : /\ c = CountIn(f.script, f.asked, {"Deploy"})
                     /\ k = Left(f, {"Deploy"}) /\ q = DeployedLeft(f)
  OBVIOUS
<1>2. c \in Nat /\ k \in Nat
  BY <1>1, LeftLemma DEF Next1
<1>3. q = [n \in 1 .. k |-> DeployedAt(c + n)]
  BY <1>1 DEF DeployedLeft
<1>4. ASSUME op = "Deploy"
      PROVE  q # <<>> /\ Head(q) = DeployedAt(c + 1) /\ DeployedLeft(g) = Tail(q)
  <2>1. k > 0 /\ Left(g, {"Deploy"}) = k - 1 /\ CountIn(g.script, g.asked, {"Deploy"}) = c + 1
    BY <1>1, <1>4, LeftNext
  <2>2. q = [n \in 1 .. k |-> q[n]]
    BY <1>3
  <2>3. q # <<>> /\ Head(q) = q[1] /\ Tail(q) = [n \in 1 .. k - 1 |-> q[n + 1]]
    BY <1>2, <2>1, <2>2, TailLemma
  <2>4. DeployedLeft(g) = [n \in 1 .. k - 1 |-> DeployedAt((c + 1) + n)]
    BY <2>1 DEF DeployedLeft
  <2>5. q[1] = DeployedAt(c + 1)
    BY <1>2, <1>3, <2>1
  <2>6. \A n \in 1 .. k - 1 : q[n + 1] = DeployedAt((c + 1) + n)
    BY <1>2, <1>3 DEF DeployedAt
  <2> QED BY <2>3, <2>4, <2>5, <2>6
<1>5. ASSUME op # "Deploy"
      PROVE  DeployedLeft(g) = q
  <2>1. Left(g, {"Deploy"}) = k /\ CountIn(g.script, g.asked, {"Deploy"}) = c
    BY <1>1, <1>5, LeftNext
  <2> QED BY <1>3, <2>1 DEF DeployedLeft
<1> QED BY <1>1, <1>4, <1>5

LEMMA ReadsNext ==
    ASSUME NEW f, NEW op, NEW g, Next1(f, op, g)
    PROVE  /\ op = "StorageRead" =>
                /\ ReadsLeft(f) # <<>>
                /\ Head(ReadsLeft(f)) = ReadValue(CountIn(f.script, f.asked, {"StorageRead"}) + 1)
                /\ ReadsLeft(g) = Tail(ReadsLeft(f))
           /\ op # "StorageRead" => ReadsLeft(g) = ReadsLeft(f)
<1>1. PICK c, k, q : /\ c = CountIn(f.script, f.asked, {"StorageRead"})
                     /\ k = Left(f, {"StorageRead"}) /\ q = ReadsLeft(f)
  OBVIOUS
<1>2. c \in Nat /\ k \in Nat
  BY <1>1, LeftLemma DEF Next1
<1>3. q = [n \in 1 .. k |-> ReadValue(c + n)]
  BY <1>1 DEF ReadsLeft
<1>4. ASSUME op = "StorageRead"
      PROVE  q # <<>> /\ Head(q) = ReadValue(c + 1) /\ ReadsLeft(g) = Tail(q)
  <2>1. k > 0 /\ Left(g, {"StorageRead"}) = k - 1
        /\ CountIn(g.script, g.asked, {"StorageRead"}) = c + 1
    BY <1>1, <1>4, LeftNext
  <2>2. q = [n \in 1 .. k |-> q[n]]
    BY <1>3
  <2>3. q # <<>> /\ Head(q) = q[1] /\ Tail(q) = [n \in 1 .. k - 1 |-> q[n + 1]]
    BY <1>2, <2>1, <2>2, TailLemma
  <2>4. ReadsLeft(g) = [n \in 1 .. k - 1 |-> ReadValue((c + 1) + n)]
    BY <2>1 DEF ReadsLeft
  <2>5. q[1] = ReadValue(c + 1)
    BY <1>2, <1>3, <2>1
  <2>6. \A n \in 1 .. k - 1 : q[n + 1] = ReadValue((c + 1) + n)
    BY <1>2, <1>3 DEF ReadValue
  <2> QED BY <2>3, <2>4, <2>5, <2>6
<1>5. ASSUME op # "StorageRead"
      PROVE  ReadsLeft(g) = q
  <2>1. Left(g, {"StorageRead"}) = k /\ CountIn(g.script, g.asked, {"StorageRead"}) = c
    BY <1>1, <1>5, LeftNext
  <2> QED BY <1>3, <2>1 DEF ReadsLeft
<1> QED BY <1>1, <1>4, <1>5

\* At the end of the code nothing is left, at its beginning everything.
LEMMA IteratorEnds ==
    ASSUME NEW f, FrameTypes(f)
    PROVE  /\ Len(ResultsLeft(f)) = Left(f, InnerOps)
           /\ Len(DeployedLeft(f)) = Left(f, {"Deploy"})
           /\ Len(ReadsLeft(f)) = Left(f, {"StorageRead"})
           /\ f.asked = Len(f.script) =>
                 ResultsLeft(f) = <<>> /\ DeployedLeft(f) = <<>> /\ ReadsLeft(f) = <<>>
           /\ f.asked = 0 => /\ ResultsLeft(f) = Results(f.script)
                             /\ DeployedLeft(f) = Deployed(f.script)
                             /\ ReadsLeft(f) = Reads(f.script)
<1>1. \A ops : /\ Left(f, ops) \in Nat
               /\ f.asked = Len(f.script) => Left(f, ops) = 0
               /\ f.asked = 0 => /\ Left(f, ops) = CountIn(f.script, Len(f.script), ops)
                                 /\ CountIn(f.script, f.asked, ops) = 0
  BY LeftLemma
<1>2. PICK q1, q2, q3 : q1 = ResultsLeft(f) /\ q2 = DeployedLeft(f) /\ q3 = ReadsLeft(f)
  OBVIOUS
<1>3. /\ q1 = [n \in 1 .. Left(f, InnerOps) |-> q1[n]]
      /\ q2 = [n \in 1 .. Left(f, {"Deploy"}) |-> q2[n]]
      /\ q3 = [n \in 1 .. Left(f, {"StorageRead"}) |-> q3[n]]
  BY <1>2 DEF ResultsLeft, DeployedLeft, ReadsLeft
<1>4. /\ Len(q1) = Left(f, InnerOps) /\ (Left(f, InnerOps) = 0 => q1 = <<>>)
      /\ Len(q2) = Left(f, {"Deploy"}) /\ (Left(f, {"Deploy"}) = 0 => q2 = <<>>)
      /\ Len(q3) = Left(f, {"StorageRead"}) /\ (Left(f, {"StorageRead"}) = 0 => q3 = <<>>)
  BY <1>1, <1>3, TailLemma
<1>5. ASSUME f.asked = 0
      PROVE  /\ q1 = Results(f.script) /\ q2 = Deployed(f.script) /\ q3 = Reads(f.script)
  <2>1. \A ops : /\ Left(f, ops) = CountIn(f.script, Len(f.script), ops)
                 /\ CountIn(f.script, f.asked, ops) = 0 /\ Left(f, ops) \in Nat
    BY <1>1, <1>5
  <2>2. q1 = [n \in 1 .. Left(f, InnerOps) |-> ResultOf(InnerOp(f.script, 0 + n), 0 + n)]
    BY <1>2, <2>1 DEF ResultsLeft
  <2>3. q1 = Results(f.script)
    BY <2>1, <2>2 DEF Results
  <2>4. q2 = Deployed(f.script)
    BY <1>2, <2>1 DEF DeployedLeft, Deployed
  <2>5. q3 = Reads(f.script)
    BY <1>2, <2>1 DEF ReadsLeft, Reads
  <2> QED BY <2>3, <2>4, <2>5
<1> QED BY <1>1, <1>2, <1>4, <1>5

-----------------------------------------------------------------------------
(* The stack.                                                              *)

LEMMA StackElements ==
    ASSUME NEW s, IsStack(s)
    PROVE  /\ s \in Seq({s[i] : i \in 1 .. Len(s)}) /\ DOMAIN s = 1 .. Len(s)
           /\ Len(s) \in Nat /\ (s = <<>> <=> Len(s) = 0)
<1>1. PICK n \in Nat : n = Len(s)
  BY DEF IsStack
<1>2. s = [i \in 1 .. n |-> s[i]]
  BY <1>1 DEF IsStack
<1>3. s = <<>> <=> n = 0
  BY <1>2, TailLemma
<1>4. s \in Seq({s[i] : i \in 1 .. n})
  BY <1>2, FunctionIsSeq
<1>5. DOMAIN s = 1 .. n
  BY <1>2
<1> QED BY <1>1, <1>3, <1>4, <1>5

LEMMA StackFunction ==
    ASSUME NEW n \in Nat, NEW s, s = [i \in 1 .. n |-> s[i]]
    PROVE  IsStack(s) /\ Len(s) = n
<1>1. Len(s) = n
  BY FunctionIsSeq
<1> QED BY <1>1 DEF IsStack

\* The top of a stack replaced, ...
Retopped(s, g) == [s EXCEPT ![Len(s)] = g]

LEMMA StackTop ==
    ASSUME NEW s, IsStack(s), s # <<>>, NEW g, NEW t, t = Retopped(s, g)
    PROVE  /\ IsStack(t) /\ Len(t) = Len(s) /\ t[Len(s)] = g /\ t # <<>>
           /\ \A i \in 1 .. Len(s) - 1 : t[i] = s[i]
<1>1. PICK n \in Nat : n = Len(s) /\ n > 0
  <2>1. Len(s) \in Nat /\ Len(s) # 0
    BY StackElements
  <2> QED BY <2>1
<1>2. DOMAIN s = 1 .. n
  BY <1>1, StackElements
<1>3. t = [i \in 1 .. n |-> IF i = n THEN g ELSE s[i]]
  BY <1>1, <1>2 DEF Retopped
<1>4. t = [i \in 1 .. n |-> t[i]]
  BY <1>3
<1>5. IsStack(t) /\ Len(t) = n
  BY <1>4, StackFunction
<1>6. t[n] = g /\ \A i \in 1 .. n - 1 : t[i] = s[i]
  BY <1>1, <1>3
<1>7. t # <<>>
  BY <1>1, <1>5, StackElements
<1> QED BY <1>1, <1>5, <1>6, <1>7

\* ... a frame pushed on it, ...
Pushed(s, g) == Append(s, g)

LEMMA StackPush ==
    ASSUME NEW s, IsStack(s), NEW g, NEW t, t = Pushed(s, g)
    PROVE  /\ IsStack(t) /\ Len(t) = Len(s) + 1 /\ t[Len(s) + 1] = g /\ t # <<>>
           /\ \A i \in 1 .. Len(s) : t[i] = s[i]
<1>1. PICK n \in Nat : n = Len(s)
  BY DEF IsStack
<1>2. PICK S : S = {s[i] : i \in 1 .. n} \cup {g}
  OBVIOUS
<1>3. s \in Seq(S)
  <2>1. s = [i \in 1 .. n |-> s[i]]
    BY <1>1 DEF IsStack
  <2> QED BY <1>2, <2>1, FunctionIsSeq
<1>4. /\ t \in Seq(S) /\ Len(t) = n + 1 /\ t[n + 1] = g
      /\ \A i \in 1 .. n : t[i] = s[i]
  BY <1>1, <1>2, <1>3 DEF Pushed
<1>5. t = [i \in 1 .. n + 1 |-> t[i]] /\ n + 1 \in Nat
  <2>1. t \in [1 .. Len(t) -> S]
    BY <1>4, LenProperties
  <2>2. PICK k \in Nat : k = n + 1 /\ t \in [1 .. k -> S]
    BY <1>4, <2>1
  <2>3. t = [i \in 1 .. k |-> t[i]]
    BY <2>2
  <2> QED BY <2>2, <2>3
<1>6. IsStack(t)
  BY <1>5, StackFunction
<1>7. t # <<>>
  BY <1>4, <1>6, StackElements
<1> QED BY <1>1, <1>4, <1>6, <1>7

\* ... or its top taken off.
LEMMA StackPop ==
    ASSUME NEW s, IsStack(s), s # <<>>, NEW t, t = SubSeq(s, 1, Len(s) - 1)
    PROVE  /\ IsStack(t) /\ Len(t) = Len(s) - 1
           /\ \A i \in 1 .. Len(s) - 1 : t[i] = s[i]
<1>1. PICK n \in Nat : n = Len(s) - 1 /\ n + 1 = Len(s)
  BY StackElements
<1>2. t = [i \in 1 .. n |-> s[i]]
  <2>1. PICK S : s \in Seq(S)
    BY StackElements
  <2>2. t = SubSeq(s, 1, n) /\ n <= Len(s)
    BY <1>1
  <2>3. t \in Seq(S) /\ Len(t) = n /\ \A i \in 1 .. n : t[i] = s[i]
    <3>1. 1 \in Int /\ n \in Int /\ \A i \in 1 .. n : s[i] \in S
      BY <1>1, <2>1
    <3>2. /\ SubSeq(s, 1, n) \in Seq(S)
          /\ Len(SubSeq(s, 1, n)) = IF 1 <= n THEN n - 1 + 1 ELSE 0
          /\ \A i \in 1 .. n - 1 + 1 : SubSeq(s, 1, n)[i] = s[1 + i - 1]
      BY <3>1, SubSeqProperties
    <3>3. n - 1 + 1 = n /\ \A i \in 1 .. n : 1 + i - 1 = i
      OBVIOUS
    <3> QED BY <2>2, <3>2, <3>3
  <2> QED BY <2>3
<1>3. t = [i \in 1 .. n |-> t[i]]
  BY <1>2
<1>4. IsStack(t) /\ Len(t) = n
  BY <1>3, StackFunction
<1>5. \A i \in 1 .. n : t[i] = s[i]
  BY <1>2
<1> QED BY <1>1, <1>4, <1>5

-----------------------------------------------------------------------------
(* Temporary segments.                                                     *)

\* The pending calls of t are among those of s, with the same segments.
Among(t, s) ==
    \A i \in 1 .. Len(t) : \A j \in Pending(t[i]) :
        i \in 1 .. Len(s) /\ j \in Pending(s[i]) /\ Guess(t[i], j) = Guess(s[i], j)

LEMMA AmongLemma ==
    ASSUME NEW s, NEW t, Among(t, s)
    PROVE  /\ Distinct(s) => Distinct(t)
           /\ \A rules : Unmoved(s, rules) => Unmoved(t, rules)
           /\ \A x : Owed(t, x) => Owed(s, x)
<1>1. ASSUME Distinct(s) PROVE Distinct(t)
  <2> SUFFICES ASSUME NEW i \in 1 .. Len(t), NEW j \in Pending(t[i]),
                      NEW g \in 1 .. Len(t), NEW h \in Pending(t[g]),
                      Guess(t[g], h) = Guess(t[i], j)
               PROVE  g = i /\ h = j
    BY DEF Distinct
  <2>1. i \in 1 .. Len(s) /\ j \in Pending(s[i]) /\ Guess(t[i], j) = Guess(s[i], j)
    BY DEF Among
  <2>2. g \in 1 .. Len(s) /\ h \in Pending(s[g]) /\ Guess(t[g], h) = Guess(s[g], h)
    BY DEF Among
  <2>3. Guess(s[g], h) = Guess(s[i], j)
    BY <2>1, <2>2
  <2> QED BY <1>1, <2>1, <2>2, <2>3, Zenon DEF Distinct
<1>2. ASSUME NEW rules, Unmoved(s, rules) PROVE Unmoved(t, rules)
  <2> SUFFICES ASSUME NEW i \in 1 .. Len(t), NEW j \in Pending(t[i])
               PROVE  Guess(t[i], j) \notin DOMAIN rules
    BY DEF Unmoved
  <2>1. i \in 1 .. Len(s) /\ j \in Pending(s[i]) /\ Guess(t[i], j) = Guess(s[i], j)
    BY DEF Among
  <2> QED BY <1>2, <2>1 DEF Unmoved
<1>3. ASSUME NEW x, Owed(t, x) PROVE Owed(s, x)
  <2>1. PICK i \in 1 .. Len(t) : \E j \in Pending(t[i]) : Guess(t[i], j) = x
    BY <1>3 DEF Owed
  <2>2. PICK j \in Pending(t[i]) : Guess(t[i], j) = x
    BY <2>1
  <2>3. i \in 1 .. Len(s) /\ j \in Pending(s[i]) /\ Guess(s[i], j) = x
    BY <2>2 DEF Among
  <2> QED BY <2>3 DEF Owed
<1> QED BY <1>1, <1>2, <1>3

LEMMA SegmentsKept ==
    ASSUME NEW s, NEW temp, NEW rules, Segments(s, temp, rules), NEW t,
           Among(t, s), Among(s, t)
    PROVE  Segments(t, temp, rules)
  BY AmongLemma DEF Segments

\* A call asked for by frame N gets a new segment, ...
LEMMA SegmentAdded ==
    ASSUME NEW s, NEW temp, NEW rules, Segments(s, temp, rules),
           \A i \in 1 .. Len(s) : \A j \in Pending(s[i]) : Guess(s[i], j) \in DOMAIN temp,
           NEW t, Among(s, t), NEW N \in 1 .. Len(t), NEW a \in Pending(t[N]),
           \A i \in 1 .. Len(t) : \A j \in Pending(t[i]) :
               ~(i = N /\ j = a) => i \in 1 .. Len(s) /\ j \in Pending(s[i]),
           NEW more, Keeps(temp, more), DOMAIN more = DOMAIN temp \cup {Guess(t[N], a)},
           Guess(t[N], a) \notin DOMAIN temp
    PROVE  Segments(t, more, rules)
<1>1. RulesMeant(more, rules)
  BY DEF Segments, RulesMeant, Keeps
<1>2. ASSUME NEW x \in DOMAIN more \ DOMAIN rules
      PROVE  Owed(t, x)
  <2>1. CASE x = Guess(t[N], a)
    BY <2>1 DEF Owed
  <2>2. CASE x \in DOMAIN temp
    BY <2>2, AmongLemma DEF Segments
  <2> QED BY <2>1, <2>2
<1>3. ASSUME NEW i \in 1 .. Len(t), NEW j \in Pending(t[i]), ~(i = N /\ j = a)
      PROVE  /\ i \in 1 .. Len(s) /\ j \in Pending(s[i])
             /\ Guess(t[i], j) = Guess(s[i], j) /\ Guess(s[i], j) \in DOMAIN temp
  <2>1. i \in 1 .. Len(s) /\ j \in Pending(s[i])
    BY <1>3
  <2> QED BY <2>1 DEF Among
<1>4. Unmoved(t, rules)
  <2> SUFFICES ASSUME NEW i \in 1 .. Len(t), NEW j \in Pending(t[i])
               PROVE  Guess(t[i], j) \notin DOMAIN rules
    BY DEF Unmoved
  <2>1. CASE i = N /\ j = a
    BY <2>1 DEF Segments, RulesMeant
  <2>2. CASE ~(i = N /\ j = a)
    BY <1>3, <2>2 DEF Segments, Unmoved
  <2> QED BY <2>1, <2>2
<1>5. Distinct(t)
  <2> SUFFICES ASSUME NEW i \in 1 .. Len(t), NEW j \in Pending(t[i]),
                      NEW g \in 1 .. Len(t), NEW h \in Pending(t[g]),
                      Guess(t[g], h) = Guess(t[i], j)
               PROVE  g = i /\ h = j
    BY DEF Distinct
  <2>1. CASE i = N /\ j = a /\ g = N /\ h = a
    BY <2>1
  <2>2. CASE i = N /\ j = a /\ ~(g = N /\ h = a)
    BY <1>3, <2>2
  <2>3. CASE g = N /\ h = a /\ ~(i = N /\ j = a)
    BY <1>3, <2>3
  <2>4. CASE ~(i = N /\ j = a) /\ ~(g = N /\ h = a)
    <3>1. i \in 1 .. Len(s) /\ j \in Pending(s[i]) /\ Guess(t[i], j) = Guess(s[i], j)
      BY <1>3, <2>4
    <3>2. g \in 1 .. Len(s) /\ h \in Pending(s[g]) /\ Guess(t[g], h) = Guess(s[g], h)
      BY <1>3, <2>4
    <3>3. Guess(s[g], h) = Guess(s[i], j) /\ Distinct(s)
      BY <3>1, <3>2 DEF Segments
    <3> QED BY <3>1, <3>2, <3>3, Zenon DEF Distinct
  <2> QED BY <2>1, <2>2, <2>3, <2>4
<1> QED BY <1>1, <1>2, <1>4, <1>5 DEF Segments

\* ... for which the check of the call adds a rule.
WithRule(rules, T, temp) ==
    [x \in DOMAIN rules \cup {T} |-> IF x = T THEN temp[T] ELSE rules[x]]

LEMMA SegmentMoved ==
    ASSUME NEW s, NEW temp, NEW rules, Segments(s, temp, rules),
           NEW t, Among(t, s), NEW N \in 1 .. Len(s), NEW a \in Pending(s[N]),
           N \in 1 .. Len(t) => a \notin Pending(t[N]),
           \A i \in 1 .. Len(s) : \A j \in Pending(s[i]) :
               ~(i = N /\ j = a) => i \in 1 .. Len(t) /\ j \in Pending(t[i]),
           NEW T \in DOMAIN temp, T = Guess(s[N], a),
           NEW more, more = WithRule(rules, T, temp)
    PROVE  Segments(t, temp, more)
<1>1. DOMAIN more = DOMAIN rules \cup {T} /\ RulesMeant(temp, more)
  BY DEF Segments, RulesMeant, WithRule
<1>2. ASSUME NEW x \in DOMAIN temp \ DOMAIN more
      PROVE  Owed(t, x)
  <2>1. PICK i \in 1 .. Len(s) : \E j \in Pending(s[i]) : Guess(s[i], j) = x
    BY <1>1 DEF Segments, Owed
  <2>2. PICK j \in Pending(s[i]) : Guess(s[i], j) = x
    BY <2>1
  <2>3. ~(i = N /\ j = a)
    BY <1>1, <2>2
  <2>4. i \in 1 .. Len(t) /\ j \in Pending(t[i])
    BY <2>3
  <2>5. Guess(t[i], j) = x
    BY <2>2, <2>4 DEF Among
  <2> QED BY <2>4, <2>5 DEF Owed
<1>3. Unmoved(t, more)
  <2> SUFFICES ASSUME NEW i \in 1 .. Len(t), NEW j \in Pending(t[i])
               PROVE  Guess(t[i], j) \notin DOMAIN more
    BY DEF Unmoved
  <2>1. i \in 1 .. Len(s) /\ j \in Pending(s[i]) /\ Guess(t[i], j) = Guess(s[i], j)
    BY DEF Among
  <2>2. ~(i = N /\ j = a)
    OBVIOUS
  <2>3. Guess(s[i], j) # Guess(s[N], a)
    <3>1. Distinct(s)
      BY DEF Segments
    <3> QED BY <2>1, <2>2, <3>1, Zenon DEF Distinct
  <2>4. Guess(s[i], j) \notin DOMAIN rules
    BY <2>1 DEF Segments, Unmoved
  <2> QED BY <1>1, <2>1, <2>3, <2>4
<1>4. Distinct(t)
  BY AmongLemma DEF Segments
<1> QED BY <1>1, <1>2, <1>3, <1>4 DEF Segments

-----------------------------------------------------------------------------
(* Steps of the first pass.                                                *)

LEMMA TopFacts ==
    ASSUME RunInv, stack # <<>>
    PROVE  /\ Len(stack) \in Nat /\ Len(stack) > 0 /\ Top = stack[Len(stack)]
           /\ FrameTypes(Top) /\ FrameLaid(Top)
           /\ FrameAnswered(Top, temporary, txs, Exempt)
<1>1. Len(stack) \in Nat /\ Len(stack) # 0
  BY StackElements DEF RunInv, TxInStep
<1>2. Len(stack) \in 1 .. Len(stack)
  BY <1>1
<1> QED BY <1>1, <1>2 DEF Top, RunInv, FramesInStep

LEMMA GuessesThere ==
    ASSUME RunInv, NEW i \in 1 .. Len(stack), NEW j \in Pending(stack[i])
    PROVE  /\ j \in 0 .. stack[i].asked - 1 /\ stack[i].script[j + 1] \in CallOps
           /\ GuessRight(stack[i], j, temporary)
           /\ Guess(stack[i], j) \in DOMAIN temporary
<1>1. PICK f : f = stack[i]
  OBVIOUS
<1>2. FrameTypes(f) /\ FrameAnswered(f, temporary, txs, Exempt)
  BY <1>1 DEF RunInv, FramesInStep
<1>3. Here(f) \in Nat
  BY <1>2 DEF FrameTypes, Here
<1>4. j \in Here(f) .. f.asked - 1 /\ f.script[j + 1] \in CallOps
  BY <1>1 DEF Pending
<1>5. j \in 0 .. f.asked - 1
  BY <1>2, <1>3, <1>4 DEF FrameTypes
<1>6. GuessRight(f, j, temporary)
  BY <1>2, <1>4, <1>5 DEF FrameAnswered
<1> QED BY <1>1, <1>4, <1>5, <1>6 DEF GuessRight

LEMMA AnsweredKept ==
    ASSUME NEW f, NEW temp, NEW more, Keeps(temp, more), NEW tx, NEW exempt,
           FrameAnswered(f, temp, tx, exempt)
    PROVE  FrameAnswered(f, more, tx, exempt)
<1>1. ASSUME NEW j \in 0 .. f.asked - 1, f.script[j + 1] \in CallOps
      PROVE  GuessRight(f, j, more)
  <2>1. GuessRight(f, j, temp)
    BY <1>1 DEF FrameAnswered
  <2> QED BY <2>1 DEF GuessRight, Keeps
<1> QED BY <1>1 DEF FrameAnswered

LEMMA AskStep ==
    ASSUME RunInv, stack # <<>>, NEW op, NEW w, NEW cells, NEW g,
           Asking(Top, op, w, cells, g), stack' = OnTop(g),
           UNCHANGED <<callVars, txVars, relocation_rules>>,
           temporary' \in Seq(Seq(Nat)), Keeps(temporary, temporary'),
           op \in CallOps => /\ DOMAIN temporary' = DOMAIN temporary \cup {-cells[2].seg}
                             /\ -cells[2].seg \notin DOMAIN temporary,
           op \notin CallOps => temporary' = temporary,
           CellsRight(Top, op, cells, temporary', txs, Exempt),
           result_iter' = ResultsLeft(g), deployed_contracts_iter' = DeployedLeft(g),
           execute_code_read_iter' = ReadsLeft(g)
    PROVE  RunInv'
<1>1. PICK N, f, s, t : N = Len(stack) /\ f = Top /\ s = stack /\ t = stack'
  OBVIOUS
<1>2. /\ N \in Nat /\ N > 0 /\ f = s[N] /\ N = Len(s)
      /\ FrameTypes(f) /\ FrameLaid(f) /\ FrameAnswered(f, temporary, txs, Exempt)
  BY <1>1, TopFacts
<1>3. /\ IsStack(t) /\ Len(t) = N /\ t[N] = g /\ t # <<>>
      /\ \A i \in 1 .. N - 1 : t[i] = s[i]
  <2>1. IsStack(s) /\ s # <<>> /\ t = Retopped(s, g)
    BY <1>1 DEF RunInv, TxInStep, OnTop, Retopped
  <2>2. /\ IsStack(t) /\ Len(t) = Len(s) /\ t[Len(s)] = g /\ t # <<>>
        /\ \A i \in 1 .. Len(s) - 1 : t[i] = s[i]
    BY <2>1, StackTop
  <2> QED BY <1>2, <2>2
<1>4. Asking(f, op, w, cells, g)
  BY <1>1
<1>5. /\ f.pass = "code" /\ f.asked < Len(f.script) /\ op = f.script[f.asked + 1]
      /\ g = Asked(f, op, w)
  BY <1>4 DEF Asking
<1>6. FrameTypes(g) /\ Here(g) = 0 /\ Here(f) = 0
  BY <1>2, <1>5, AskedTypes
<1>7. FrameLaid(g)
  BY <1>4, AskedLaid
<1>8. /\ g.call = f.call /\ g.script = f.script /\ g.asked = f.asked + 1
      /\ g.pass = f.pass /\ g.retdata = f.retdata
  BY <1>2, <1>5, AskedFields
<1>9. /\ FrameAnswered(g, temporary', txs, Exempt)
      /\ \A j \in 0 .. f.asked - 1 : f.script[j + 1] \in CallOps => Guess(g, j) = Guess(f, j)
      /\ op \in CallOps => Guess(g, f.asked) = -cells[2].seg
  BY <1>1, <1>2, <1>4, AskedAnswered
<1>10. Exempt' = Exempt /\ txs' = txs
  BY DEF Exempt, txVars
<1>11. TxInStep'
  BY <1>1, <1>3 DEF RunInv, TxInStep, txVars
<1>12. FramesInStep'
  <2> SUFFICES ASSUME NEW i \in 1 .. N
               PROVE  /\ FrameTypes(t[i]) /\ FrameLaid(t[i])
                      /\ FrameAnswered(t[i], temporary', txs, Exempt)
    BY <1>1, <1>3, <1>10 DEF FramesInStep
  <2>1. CASE i = N
    BY <1>3, <1>6, <1>7, <1>9, <2>1
  <2>2. CASE i # N
    <3>1. t[i] = s[i]
      BY <1>2, <1>3, <2>2
    <3>2. FrameTypes(s[i]) /\ FrameLaid(s[i]) /\ FrameAnswered(s[i], temporary, txs, Exempt)
      BY <1>1 DEF RunInv, FramesInStep
    <3> QED BY <3>1, <3>2, AnsweredKept
  <2> QED BY <2>1, <2>2
<1>13. CallsInStep'
  <2> SUFFICES ASSUME NEW i \in 1 .. N - 1 PROVE Calling(t[i], t[i + 1])
    BY <1>1, <1>3 DEF CallsInStep
  <2>1. Calling(s[i], s[i + 1]) /\ t[i] = s[i]
    BY <1>1, <1>3 DEF RunInv, CallsInStep
  <2>2. t[i + 1].retdata = s[i + 1].retdata
    <3>1. CASE i + 1 = N
      BY <1>2, <1>3, <1>8, <3>1
    <3>2. CASE i + 1 # N
      <4>1. i + 1 \in 1 .. N - 1
        BY <1>2, <3>2
      <4> QED BY <1>3, <4>1
    <3> QED BY <3>1, <3>2
  <2> QED BY <2>1, <2>2 DEF Calling
<1>14. CodeInStep'
  <2>1. call_info' = g.call /\ call_execution_info_ptr' # None
    BY <1>1, <1>2, <1>5, <1>8 DEF RunInv, CodeInStep, callVars
  <2> QED BY <1>1, <1>3, <2>1 DEF CodeInStep
<1>15. SegmentsInStep'
  <2>1. Segments(s, temporary, relocation_rules)
    BY <1>1 DEF RunInv, SegmentsInStep
  <2>2. /\ f.asked \in Nat
        /\ Pending(f) = {j \in 0 .. f.asked - 1 : f.script[j + 1] \in CallOps}
        /\ Pending(g) = {j \in 0 .. f.asked : f.script[j + 1] \in CallOps}
    <3>1. f.asked \in Nat /\ (f.asked + 1) - 1 = f.asked
      BY <1>2 DEF FrameTypes
    <3> QED BY <1>6, <1>8, <3>1 DEF Pending
  <2>3. /\ f.asked \notin Pending(f) /\ \A j \in Pending(f) : j \in Pending(g)
        /\ \A j \in Pending(g) : j \in Pending(f) \/ (j = f.asked /\ op \in CallOps)
    BY <1>5, <2>2
  <2>4. \A j \in Pending(f) : Guess(g, j) = Guess(f, j)
    BY <1>9, <2>2
  <2>5. Among(s, t)
    <3> SUFFICES ASSUME NEW i \in 1 .. N, NEW j \in Pending(s[i])
                 PROVE  j \in Pending(t[i]) /\ Guess(s[i], j) = Guess(t[i], j)
      BY <1>2, <1>3 DEF Among
    <3>1. CASE i = N
      BY <1>2, <1>3, <2>3, <2>4, <3>1
    <3>2. CASE i # N
      BY <1>2, <1>3, <3>2
    <3> QED BY <3>1, <3>2
  <2>6. CASE op \notin CallOps
    <3>1. Among(t, s)
      <4> SUFFICES ASSUME NEW i \in 1 .. N, NEW j \in Pending(t[i])
                   PROVE  j \in Pending(s[i]) /\ Guess(t[i], j) = Guess(s[i], j)
        BY <1>2, <1>3 DEF Among
      <4>1. CASE i = N
        BY <1>2, <1>3, <2>3, <2>4, <2>6, <4>1
      <4>2. CASE i # N
        BY <1>2, <1>3, <4>2
      <4> QED BY <4>1, <4>2
    <3>2. Segments(t, temporary, relocation_rules)
      BY <2>1, <2>5, <3>1, SegmentsKept
    <3> QED BY <1>1, <2>6, <3>2 DEF SegmentsInStep
  <2>7. CASE op \in CallOps
    <3>1. PICK a : a = f.asked
      OBVIOUS
    <3>2. a \in Pending(t[N]) /\ N \in 1 .. Len(t)
      BY <1>2, <1>3, <1>5, <2>2, <2>7, <3>1
    <3>3. ASSUME NEW i \in 1 .. Len(t), NEW j \in Pending(t[i]), ~(i = N /\ j = a)
          PROVE  i \in 1 .. Len(s) /\ j \in Pending(s[i])
      <4>1. CASE i = N
        BY <1>2, <1>3, <2>3, <3>1, <3>3, <4>1
      <4>2. CASE i # N
        BY <1>2, <1>3, <4>2
      <4> QED BY <4>1, <4>2
    <3>4. Guess(t[N], a) = -cells[2].seg
      BY <1>3, <1>9, <2>7, <3>1
    <3>5. /\ DOMAIN temporary' = DOMAIN temporary \cup {Guess(t[N], a)}
          /\ Guess(t[N], a) \notin DOMAIN temporary
      BY <2>7, <3>4
    <3>6. \A i \in 1 .. Len(s) : \A j \in Pending(s[i]) : Guess(s[i], j) \in DOMAIN temporary
      BY <1>1, GuessesThere
    <3>7. PICK more : more = temporary' /\ Keeps(temporary, more)
                      /\ DOMAIN more = DOMAIN temporary \cup {Guess(t[N], a)}
      BY <3>5
    <3>8. Segments(t, more, relocation_rules)
      BY <2>1, <2>5, <3>2, <3>3, <3>5, <3>6, <3>7, SegmentAdded
    <3> QED BY <1>1, <3>7, <3>8 DEF SegmentsInStep
  <2> QED BY <2>6, <2>7
<1> QED BY <1>11, <1>12, <1>13, <1>14, <1>15 DEF RunInv

\* What holds where the code asks for op.
LEMMA AsksFacts ==
    ASSUME IInv, NEW op, Asks(op)
    PROVE  /\ RunInv /\ stack # <<>> /\ status = "running"
           /\ FrameTypes(Top) /\ FrameLaid(Top) /\ Top.pass = "code"
           /\ Top.asked < Len(Top.script) /\ op = Top.script[Top.asked + 1]
           /\ op \in Offered /\ Top.asked \in Nat
           /\ Top.ptr \in Nat /\ DOMAIN Top.mem = 0 .. Top.ptr - 1
           /\ call_info = Top.call /\ call_execution_info_ptr # None
           /\ result_iter = ResultsLeft(Top)
           /\ deployed_contracts_iter = DeployedLeft(Top)
           /\ execute_code_read_iter = ReadsLeft(Top)
<1>1. /\ status = "running" /\ stack # <<>> /\ Top.pass = "code"
      /\ Top.asked < Len(Top.script) /\ op = Top.script[Top.asked + 1]
  BY DEF Asks, Running
<1>2. RunInv
  BY <1>1 DEF IInv
<1>3. /\ Len(stack) \in Nat /\ Len(stack) > 0 /\ Top = stack[Len(stack)]
      /\ FrameTypes(Top) /\ FrameLaid(Top)
  BY <1>1, <1>2, TopFacts
<1>4. Top.asked \in Nat /\ op \in Offered
  BY <1>1, <1>3 DEF FrameTypes
<1>5. Top.ptr \in Nat /\ DOMAIN Top.mem = 0 .. Top.ptr - 1
  <2>1. At(Top.script, Top.asked) \in Nat
    BY <1>4, AtLemma
  <2> QED BY <1>3, <2>1 DEF FrameLaid
<1>6. /\ call_info = Top.call /\ call_execution_info_ptr # None
      /\ result_iter = ResultsLeft(Top)
      /\ deployed_contracts_iter = DeployedLeft(Top)
      /\ execute_code_read_iter = ReadsLeft(Top)
  BY <1>1, <1>2, <1>3 DEF RunInv, CodeInStep
<1> QED BY <1>1, <1>2, <1>3, <1>4, <1>5, <1>6

\* The code goes on with its answer.
LEMMA AnsweredStep ==
    ASSUME IInv, NEW op, Asks(op), NEW w, NEW cells,
           Extends(w, Top.mem, Top.ptr, op, cells), Answered(op, w)
    PROVE  \E g : /\ Asking(Top, op, w, cells, g) /\ Next1(Top, op, g)
                  /\ stack' = OnTop(g) /\ status' = "running"
<1>1. /\ FrameTypes(Top) /\ FrameLaid(Top) /\ Top.pass = "code" /\ status = "running"
      /\ Top.asked < Len(Top.script) /\ op = Top.script[Top.asked + 1]
      /\ op \in Offered /\ Top.ptr \in Nat
  BY AsksFacts
<1>2. PICK g : g = Asked(Top, op, w)
  OBVIOUS
<1>3. stack' = OnTop(g)
  BY <1>2 DEF Answered, Asked
<1>4. status' = "running"
  <2>1. PICK p \in Nat : p = Top.ptr
    BY <1>1
  <2>2. PICK r \in Nat, z \in Nat : r = RequestSize(op) /\ z = SyscallSize(op)
    BY <1>1, SizeLemma
  <2>3. (p + r) .. (p + z - 1) \subseteq 0 .. p + z - 1
    OBVIOUS
  <2>4. (p + r) .. (p + z - 1) \subseteq DOMAIN w
    BY <2>1, <2>2, <2>3 DEF Extends
  <2> QED BY <1>1, <2>1, <2>2, <2>4 DEF Answered
<1>5. Asking(Top, op, w, cells, g)
  BY <1>1, <1>2 DEF Asking
<1>6. Next1(Top, op, g)
  <2>1. g.script = Top.script /\ g.asked = Top.asked + 1
    BY <1>1, <1>2, AskedFields
  <2> QED BY <1>1, <2>1 DEF Next1
<1> QED BY <1>3, <1>4, <1>5, <1>6

LEMMA RespondStep ==
    ASSUME IInv, NEW op, Asks(op), ResponseSize(op) > 0, NEW cells,
           DOMAIN cells = 1 .. ResponseSize(op), Len(cells) = ResponseSize(op),
           Respond(op, cells)
    PROVE  \E w, g : /\ Asking(Top, op, w, cells, g) /\ Next1(Top, op, g)
                     /\ stack' = OnTop(g) /\ status' = "running"
<1>1. op \in Offered /\ Top.ptr \in Nat /\ DOMAIN Top.mem = 0 .. Top.ptr - 1
  BY AsksFacts
<1>2. PICK w : w = Insert(Insert(Top.mem, Top.ptr, Request(op)),
                          Top.ptr + response_offset(op), cells)
  OBVIOUS
<1>3. /\ CanInsert(Insert(Top.mem, Top.ptr, Request(op)),
                   Top.ptr + response_offset(op), cells)
      /\ Extends(w, Top.mem, Top.ptr, op, cells)
  BY <1>1, <1>2, ResponseLemma
<1>4. Answered(op, w)
  BY <1>2, <1>3 DEF Respond
<1> QED BY <1>3, <1>4, AnsweredStep

LEMMA SilentStep ==
    ASSUME IInv, NEW op, Asks(op), ResponseSize(op) = 0, NoResponse(op)
    PROVE  \E w, g : /\ Asking(Top, op, w, <<>>, g) /\ Next1(Top, op, g)
                     /\ stack' = OnTop(g) /\ status' = "running"
<1>1. op \in Offered /\ Top.ptr \in Nat /\ DOMAIN Top.mem = 0 .. Top.ptr - 1
  BY AsksFacts
<1>2. PICK w : w = Insert(Top.mem, Top.ptr, Request(op))
  OBVIOUS
<1>3. Extends(w, Top.mem, Top.ptr, op, <<>>)
  BY <1>1, <1>2, SilentLemma
<1>4. Answered(op, w)
  BY <1>2 DEF NoResponse
<1> QED BY <1>3, <1>4, AnsweredStep

\* The recording has what the code asks for.
LEMMA RecordedNext ==
    ASSUME IInv, NEW op, Asks(op)
    PROVE  /\ op \in InnerOps =>
                 result_iter # <<>> /\ Head(result_iter) = MeantResult(Top, Top.asked)
           /\ op = "Deploy" =>
                 /\ deployed_contracts_iter # <<>>
                 /\ Head(deployed_contracts_iter)
                      = DeployedAt(CountIn(Top.script, Top.asked, {"Deploy"}) + 1)
           /\ op = "StorageRead" =>
                 /\ execute_code_read_iter # <<>>
                 /\ Head(execute_code_read_iter)
                      = ReadValue(CountIn(Top.script, Top.asked, {"StorageRead"}) + 1)
<1>1. /\ FrameTypes(Top) /\ Top.asked < Len(Top.script)
      /\ op = Top.script[Top.asked + 1]
      /\ result_iter = ResultsLeft(Top)
      /\ deployed_contracts_iter = DeployedLeft(Top)
      /\ execute_code_read_iter = ReadsLeft(Top)
  BY AsksFacts
<1>2. PICK g : g = Asked(Top, op, <<>>)
  OBVIOUS
<1>3. Next1(Top, op, g)
  <2>1. g.script = Top.script /\ g.asked = Top.asked + 1
    BY <1>1, <1>2, AskedFields
  <2> QED BY <1>1, <2>1 DEF Next1
<1> QED BY <1>1, <1>3, ResultsNext, DeployedNext, ReadsNext

LEMMA ResultTypes ==
    ASSUME NEW f, FrameTypes(f), NEW j \in Nat
    PROVE  MeantResult(f, j) \in Seq(Nat) /\ Len(MeantResult(f, j)) \in Nat
<1>1. PICK n \in Nat : n = CountIn(f.script, j, InnerOps) + 1
  BY CountLemma
<1>2. MeantResult(f, j) = ResultOf(f.script[j + 1], n)
  BY <1>1 DEF MeantResult
<1>3. 400 + n \in Nat
  OBVIOUS
<1>4. ResultOf(f.script[j + 1], n) \in Seq(Nat)
  BY <1>3 DEF ResultOf
<1> QED BY <1>2, <1>4

LEMMA CallStep ==
    ASSUME NoDelegateCall, IInv, CallSyscall
    PROVE  IInv'
<1>1. PICK op \in CallOps : Asks(op) /\ CallHint(op)
  BY DEF CallSyscall
<1>2. /\ RunInv /\ stack # <<>> /\ op \in Offered
      /\ FrameTypes(Top) /\ Top.asked \in Nat
      /\ result_iter = ResultsLeft(Top)
      /\ deployed_contracts_iter = DeployedLeft(Top)
      /\ execute_code_read_iter = ReadsLeft(Top)
  BY <1>1, AsksFacts
<1>3. op # "DelegateCall" /\ op \in InnerOps /\ op # "Deploy" /\ op # "StorageRead"
  BY <1>1, <1>2 DEF NoDelegateCall, InnerOps, CallOps
<1>4. result_iter # <<>> /\ Head(result_iter) = MeantResult(Top, Top.asked)
  BY <1>1, <1>3, RecordedNext
<1>5. PICK result, T, cells :
        /\ result = Head(result_iter) /\ T = Len(temporary) + 1
        /\ cells = <<Felt(Len(result)), Ptr(NewTemporary, 0)>>
  OBVIOUS
<1>6. /\ Respond(op, cells) /\ result_iter' = Tail(result_iter)
      /\ temporary' = Append(temporary, result)
      /\ UNCHANGED <<relocation_rules, deployed_contracts_iter, execute_code_read_iter,
                     callVars, txVars>>
  BY <1>1, <1>3, <1>4, <1>5 DEF CallHint, call_contract_and_write_response
<1>7. ResponseSize(op) = 2 /\ DOMAIN cells = 1 .. 2 /\ Len(cells) = 2
  BY <1>1, <1>2, <1>5, SizeLemma
<1>8. PICK w, g : /\ Asking(Top, op, w, cells, g) /\ Next1(Top, op, g)
                  /\ stack' = OnTop(g) /\ status' = "running"
  <2>1. /\ ResponseSize(op) > 0 /\ DOMAIN cells = 1 .. ResponseSize(op)
        /\ Len(cells) = ResponseSize(op)
    BY <1>7
  <2> QED BY <1>1, <1>6, <2>1, RespondStep
<1>9. /\ result_iter' = ResultsLeft(g) /\ deployed_contracts_iter' = DeployedLeft(g)
      /\ execute_code_read_iter' = ReadsLeft(g)
  <2>1. ResultsLeft(g) = Tail(ResultsLeft(Top))
    BY <1>3, <1>8, ResultsNext
  <2>2. DeployedLeft(g) = DeployedLeft(Top)
    BY <1>3, <1>8, DeployedNext
  <2>3. ReadsLeft(g) = ReadsLeft(Top)
    BY <1>3, <1>8, ReadsNext
  <2> QED BY <1>2, <1>6, <2>1, <2>2, <2>3
<1>10. /\ temporary \in Seq(Seq(Nat)) /\ result = MeantResult(Top, Top.asked)
       /\ result \in Seq(Nat)
  BY <1>2, <1>4, <1>5, ResultTypes DEF RunInv, TxInStep
<1>11. /\ temporary' \in Seq(Seq(Nat)) /\ DOMAIN temporary = 1 .. Len(temporary)
       /\ DOMAIN temporary' = 1 .. T /\ T \in Nat /\ T \in DOMAIN temporary'
       /\ T \notin DOMAIN temporary /\ temporary'[T] = result
       /\ \A i \in DOMAIN temporary : temporary'[i] = temporary[i]
  BY <1>5, <1>6, <1>10
<1>12. Keeps(temporary, temporary') /\ DOMAIN temporary' = DOMAIN temporary \cup {T}
  BY <1>5, <1>10, <1>11 DEF Keeps
<1>13. cells[1] = Felt(Len(result)) /\ cells[2] = Ptr(-T, 0) /\ -cells[2].seg = T
  BY <1>5, <1>11 DEF Ptr, NewTemporary
<1>14. CellsRight(Top, op, cells, temporary', txs, Exempt)
  <2>1. T \in Int /\ temporary'[T] = MeantResult(Top, Top.asked)
    BY <1>10, <1>11
  <2>2. \E t \in DOMAIN temporary' : /\ t \in Int /\ cells[2] = Ptr(-t, 0)
                                    /\ temporary'[t] = MeantResult(Top, Top.asked)
    BY <1>11, <1>13, <2>1, Zenon
  <2> QED BY <1>1, <1>10, <1>13, <2>2 DEF CellsRight
<1>15. UNCHANGED <<callVars, txVars, relocation_rules>>
  BY <1>6
<1>16. RunInv'
  BY <1>1, <1>2, <1>8, <1>9, <1>11, <1>12, <1>13, <1>14, <1>15, AskStep
<1> QED BY <1>8, <1>16 DEF IInv, NothingIsRefused

LEMMA DeployStep ==
    ASSUME IInv, DeploySyscall
    PROVE  IInv'
<1>1. PICK op : op = "Deploy" /\ Asks(op) /\ deploy(op)
  BY DEF DeploySyscall
<1>2. /\ RunInv /\ stack # <<>> /\ op \in Offered
      /\ FrameTypes(Top) /\ Top.asked \in Nat /\ op = Top.script[Top.asked + 1]
      /\ result_iter = ResultsLeft(Top)
      /\ deployed_contracts_iter = DeployedLeft(Top)
      /\ execute_code_read_iter = ReadsLeft(Top)
  BY <1>1, AsksFacts
<1>3. op \in InnerOps /\ op \notin CallOps /\ op # "StorageRead"
  BY <1>1 DEF InnerOps, CallOps
<1>4. /\ result_iter # <<>> /\ deployed_contracts_iter # <<>>
      /\ Head(deployed_contracts_iter)
           = DeployedAt(CountIn(Top.script, Top.asked, {"Deploy"}) + 1)
  BY <1>1, <1>3, RecordedNext
<1>5. PICK cells : cells = <<Felt(Head(deployed_contracts_iter)), Felt(0), Felt(0)>>
  OBVIOUS
<1>6. /\ Respond(op, cells) /\ result_iter' = Tail(result_iter)
      /\ deployed_contracts_iter' = Tail(deployed_contracts_iter)
      /\ UNCHANGED <<execute_code_read_iter, callVars, vmVars, txVars>>
  BY <1>1, <1>4, <1>5 DEF deploy
<1>7. ResponseSize(op) = 3 /\ DOMAIN cells = 1 .. 3 /\ Len(cells) = 3
  BY <1>1, <1>5 DEF ResponseSize, CallOps
<1>8. PICK w, g : /\ Asking(Top, op, w, cells, g) /\ Next1(Top, op, g)
                  /\ stack' = OnTop(g) /\ status' = "running"
  <2>1. /\ ResponseSize(op) > 0 /\ DOMAIN cells = 1 .. ResponseSize(op)
        /\ Len(cells) = ResponseSize(op)
    BY <1>7
  <2> QED BY <1>1, <1>6, <2>1, RespondStep
<1>9. /\ result_iter' = ResultsLeft(g) /\ deployed_contracts_iter' = DeployedLeft(g)
      /\ execute_code_read_iter' = ReadsLeft(g)
  <2>1. ResultsLeft(g) = Tail(ResultsLeft(Top))
    BY <1>3, <1>8, ResultsNext
  <2>2. DeployedLeft(g) = Tail(DeployedLeft(Top))
    BY <1>1, <1>8, DeployedNext
  <2>3. ReadsLeft(g) = ReadsLeft(Top)
    BY <1>3, <1>8, ReadsNext
  <2> QED BY <1>2, <1>6, <2>1, <2>2, <2>3
<1>10. temporary' = temporary /\ temporary' \in Seq(Seq(Nat)) /\ Keeps(temporary, temporary')
  BY <1>2, <1>6 DEF RunInv, TxInStep, vmVars, Keeps
<1>11. CellsRight(Top, op, cells, temporary', txs, Exempt)
  <2>1. MeantCells(Top, Top.asked, txs) = cells
    BY <1>1, <1>2, <1>4, <1>5 DEF MeantCells
  <2> QED BY <1>3, <2>1 DEF CellsRight
<1>12. UNCHANGED <<callVars, txVars, relocation_rules>>
  BY <1>6 DEF vmVars
<1>13. RunInv'
  BY <1>2, <1>3, <1>8, <1>9, <1>10, <1>11, <1>12, AskStep
<1> QED BY <1>8, <1>13 DEF IInv, NothingIsRefused

LEMMA ReadStep ==
    ASSUME IInv, StorageReadSyscall
    PROVE  IInv'
<1>1. PICK op : op = "StorageRead" /\ Asks(op) /\ storage_read(op)
  BY DEF StorageReadSyscall
<1>2. /\ RunInv /\ stack # <<>> /\ op \in Offered
      /\ FrameTypes(Top) /\ Top.asked \in Nat /\ op = Top.script[Top.asked + 1]
      /\ result_iter = ResultsLeft(Top)
      /\ deployed_contracts_iter = DeployedLeft(Top)
      /\ execute_code_read_iter = ReadsLeft(Top)
  BY <1>1, AsksFacts
<1>3. op \notin InnerOps /\ op \notin CallOps /\ op # "Deploy"
  BY <1>1 DEF InnerOps, CallOps
<1>4. /\ execute_code_read_iter # <<>>
      /\ Head(execute_code_read_iter)
           = ReadValue(CountIn(Top.script, Top.asked, {"StorageRead"}) + 1)
  BY <1>1, RecordedNext
<1>5. PICK cells : cells = <<Felt(Head(execute_code_read_iter))>>
  OBVIOUS
<1>6. /\ Respond(op, cells) /\ execute_code_read_iter' = Tail(execute_code_read_iter)
      /\ UNCHANGED <<result_iter, deployed_contracts_iter, callVars, vmVars, txVars>>
  BY <1>1, <1>4, <1>5 DEF storage_read
<1>7. ResponseSize(op) = 1 /\ DOMAIN cells = 1 .. 1 /\ Len(cells) = 1
  BY <1>1, <1>5 DEF ResponseSize, CallOps
<1>8. PICK w, g : /\ Asking(Top, op, w, cells, g) /\ Next1(Top, op, g)
                  /\ stack' = OnTop(g) /\ status' = "running"
  <2>1. /\ ResponseSize(op) > 0 /\ DOMAIN cells = 1 .. ResponseSize(op)
        /\ Len(cells) = ResponseSize(op)
    BY <1>7
  <2> QED BY <1>1, <1>6, <2>1, RespondStep
<1>9. /\ result_iter' = ResultsLeft(g) /\ deployed_contracts_iter' = DeployedLeft(g)
      /\ execute_code_read_iter' = ReadsLeft(g)
  <2>1. ResultsLeft(g) = ResultsLeft(Top)
    BY <1>3, <1>8, ResultsNext
  <2>2. DeployedLeft(g) = DeployedLeft(Top)
    BY <1>3, <1>8, DeployedNext
  <2>3. ReadsLeft(g) = Tail(ReadsLeft(Top))
    BY <1>1, <1>8, ReadsNext
  <2> QED BY <1>2, <1>6, <2>1, <2>2, <2>3
<1>10. temporary' = temporary /\ temporary' \in Seq(Seq(Nat)) /\ Keeps(temporary, temporary')
  BY <1>2, <1>6 DEF RunInv, TxInStep, vmVars, Keeps
<1>11. CellsRight(Top, op, cells, temporary', txs, Exempt)
  <2>1. MeantCells(Top, Top.asked, txs) = cells
    BY <1>1, <1>2, <1>4, <1>5 DEF MeantCells
  <2> QED BY <1>3, <2>1 DEF CellsRight
<1>12. UNCHANGED <<callVars, txVars, relocation_rules>>
  BY <1>6 DEF vmVars
<1>13. RunInv'
  BY <1>2, <1>3, <1>8, <1>9, <1>10, <1>11, <1>12, AskStep
<1> QED BY <1>8, <1>13 DEF IInv, NothingIsRefused

\* The handlers with nothing to do.
LEMMA QuietStep ==
    ASSUME IInv, NEW op \in {"StorageWrite", "EmitEvent", "SendMessageToL1", "ReplaceClass"},
           Asks(op), NoResponse(op)
    PROVE  IInv'
<1>1. /\ RunInv /\ stack # <<>> /\ op \in Offered
      /\ result_iter = ResultsLeft(Top)
      /\ deployed_contracts_iter = DeployedLeft(Top)
      /\ execute_code_read_iter = ReadsLeft(Top)
  BY AsksFacts
<1>2. op \notin InnerOps /\ op \notin CallOps /\ op # "Deploy" /\ op # "StorageRead"
  BY DEF InnerOps, CallOps
<1>3. ResponseSize(op) = 0
  BY <1>1, SizeLemma
<1>4. PICK w, g : /\ Asking(Top, op, w, <<>>, g) /\ Next1(Top, op, g)
                  /\ stack' = OnTop(g) /\ status' = "running"
  BY <1>3, SilentStep
<1>5. UNCHANGED <<callVars, iterVars, vmVars, txVars>>
  BY DEF NoResponse
<1>6. /\ result_iter' = ResultsLeft(g) /\ deployed_contracts_iter' = DeployedLeft(g)
      /\ execute_code_read_iter' = ReadsLeft(g)
  <2>1. ResultsLeft(g) = ResultsLeft(Top)
    BY <1>2, <1>4, ResultsNext
  <2>2. DeployedLeft(g) = DeployedLeft(Top)
    BY <1>2, <1>4, DeployedNext
  <2>3. ReadsLeft(g) = ReadsLeft(Top)
    BY <1>2, <1>4, ReadsNext
  <2> QED BY <1>1, <1>5, <2>1, <2>2, <2>3 DEF iterVars
<1>7. temporary' = temporary /\ temporary' \in Seq(Seq(Nat)) /\ Keeps(temporary, temporary')
  BY <1>1, <1>5 DEF RunInv, TxInStep, vmVars, Keeps
<1>8. CellsRight(Top, op, <<>>, temporary', txs, Exempt)
  BY <1>2, <1>3 DEF CellsRight
<1>9. UNCHANGED <<callVars, txVars, relocation_rules>>
  BY <1>5 DEF vmVars
<1>10. RunInv'
  BY <1>1, <1>2, <1>4, <1>6, <1>7, <1>8, <1>9, AskStep
<1> QED BY <1>4, <1>10 DEF IInv, NothingIsRefused

LEMMA SilentSteps ==
    ASSUME IInv, StorageWriteSyscall \/ EmitEventSyscall \/ SilentSyscall
    PROVE  IInv'
<1>1. PICK op \in {"StorageWrite", "EmitEvent", "SendMessageToL1", "ReplaceClass"} :
        Asks(op) /\ NoResponse(op)
  BY Zenon DEF StorageWriteSyscall, EmitEventSyscall, SilentSyscall
<1> QED BY <1>1, QuietStep

\* A run that stops where the info of a declaration is asked for.
LEMMA LostStep ==
    ASSUME NEW how, how # "unknown_memory", how # "running",
           status' = how, UNCHANGED <<stack, tx_info_ptr, txs>>,
           tx_info_ptr.seg = ContextSeg(txs),
           NEW j, j \in DOMAIN Top.script, Top.script[j] \in InfoOps
    PROVE  IInv'
<1>1. NothingIsRefused'
  <2>1. Top' = Top
    BY DEF Top
  <2>2. tx_info_ptr'.seg = ContextSeg(txs')
    OBVIOUS
  <2>3. j \in DOMAIN Top'.script /\ Top'.script[j] \in {"GetTxInfo", "GetTxSignature"}
    BY <2>1 DEF InfoOps
  <2> QED BY <2>2, <2>3 DEF NothingIsRefused, ContextSeg
<1> QED BY <1>1 DEF IInv

\* What the getters answer is meant, but to a declaration.
LEMMA GotRight ==
    ASSUME IInv, NEW op \in Getters, Asks(op)
    PROVE  /\ CanGet(op) /\ ResponseSize(op) > 0
           /\ DOMAIN Got(op) = 1 .. ResponseSize(op) /\ Len(Got(op)) = ResponseSize(op)
           /\ op \notin Exempt => Got(op) = MeantCells(Top, Top.asked, txs)
           /\ op = "GetTxSignature" /\ ~HasTxInfo => tx_info_ptr.seg = ContextSeg(txs)
<1>1. /\ RunInv /\ stack # <<>> /\ FrameTypes(Top) /\ Top.asked \in Nat
      /\ Top.asked < Len(Top.script) /\ op = Top.script[Top.asked + 1]
      /\ call_info = Top.call /\ call_execution_info_ptr # None
  BY AsksFacts
<1>2. /\ txs \in Nat
      /\ \/ tx_info_ptr = Ptr(TxInfoSeg(txs), 0)
         \/ tx_info_ptr = Ptr(ContextSeg(txs), deprecated_tx_info_offset)
  BY <1>1 DEF RunInv, TxInStep
<1>3. CanGet(op)
  BY <1>1, <1>2 DEF CanGet, Ptr, None, TxInfoSeg, ContextSeg, deprecated_tx_info_offset
<1>4. op \notin Exempt /\ op \in InfoOps =>
        tx_info_ptr = Ptr(TxInfoSeg(txs), 0) /\ HasTxInfo /\ InfoTx = txs
  BY <1>2 DEF Exempt, Ptr, TxInfoSeg, ContextSeg, HasTxInfo, InfoTx
<1>5. ~HasTxInfo => tx_info_ptr.seg = ContextSeg(txs)
  BY <1>2 DEF HasTxInfo, Ptr, TxInfoSeg
<1>6. /\ ResponseSize(op) > 0
      /\ DOMAIN Got(op) = 1 .. ResponseSize(op) /\ Len(Got(op)) = ResponseSize(op)
  <2>1. CASE op = "GetTxSignature"
    <3>1. ResponseSize(op) = 2
      BY <2>1 DEF ResponseSize, CallOps
    <3>2. Got(op) = get_tx_signature
      BY <2>1 DEF Got
    <3>3. DOMAIN get_tx_signature = 1 .. 2 /\ Len(get_tx_signature) = 2
      BY DEF get_tx_signature
    <3> QED BY <3>1, <3>2, <3>3
  <2>2. CASE op # "GetTxSignature"
    <3>1. ResponseSize(op) = 1
      BY <2>2 DEF ResponseSize, CallOps, Getters
    <3>2. \E c : Got(op) = <<c>>
      BY <2>2 DEF Getters, Got, get_block_number, get_block_timestamp, get_caller_address,
         get_contract_address, get_sequencer_address, get_tx_info
    <3> QED BY <3>1, <3>2
  <2> QED BY <2>1, <2>2
<1>7. ASSUME op \notin Exempt PROVE Got(op) = MeantCells(Top, Top.asked, txs)
  <2>1. /\ Top.call \in CallSet /\ call_info = Top.call
        /\ Top.call.mode \in {"validate", "execute"}
        /\ op = "GetSequencerAddress" => Top.call.mode = "execute"
    <3>1. Top.asked + 1 \in 1 .. Len(Top.script)
      BY <1>1 DEF FrameTypes
    <3> QED BY <1>1, <3>1 DEF FrameTypes, CallSet, Modes
  <2>2. \A o : BlockField(o) = BlockInfo(Top.call.mode)[o + 1]
    <3>1. ExecutionInfo(call_info)[block_info_offset + 1] = Ptr(BlockInfoSeg(Top.call.mode), 0)
      BY <2>1 DEF ExecutionInfo, block_info_offset
    <3> QED BY <2>1, <3>1 DEF BlockField, Ptr, BlockInfoSeg
  <2>3. CASE op \in InfoOps
    <3>1. tx_info_ptr = Ptr(TxInfoSeg(txs), 0) /\ HasTxInfo /\ InfoTx = txs
      BY <1>4, <1>7, <2>3
    <3>2. CASE op = "GetTxInfo"
      BY <1>1, <3>1, <3>2 DEF Got, get_tx_info, MeantCells
    <3>3. CASE op = "GetTxSignature"
      <4>1. /\ TxInfo(InfoTx)[signature_len_offset + 1] = Felt(2)
            /\ TxInfo(InfoTx)[signature_offset + 1] = Ptr(SignatureSeg(txs), 0)
        BY <3>1 DEF TxInfo, signature_len_offset, signature_offset
      <4> QED BY <1>1, <3>1, <3>3, <4>1 DEF Got, get_tx_signature, MeantCells
    <3> QED BY <2>3, <3>2, <3>3 DEF InfoOps
  <2>4. CASE op = "GetBlockNumber"
    BY <1>1, <2>2, <2>4 DEF Got, MeantCells, get_block_number, block_number_offset
  <2>5. CASE op = "GetBlockTimestamp"
    BY <1>1, <2>2, <2>5 DEF Got, MeantCells, get_block_timestamp, block_timestamp_offset
  <2>6. CASE op = "GetCallerAddress"
    BY <1>1, <2>6 DEF Got, MeantCells, get_caller_address
  <2>7. CASE op = "GetContractAddress"
    BY <1>1, <2>7 DEF Got, MeantCells, get_contract_address
  <2>8. CASE op = "GetSequencerAddress"
    <3>1. BlockInfo(Top.call.mode)[3] = Felt(sequencer_address)
      BY <2>1, <2>8 DEF BlockInfo, sequencer_address
    <3> QED BY <1>1, <2>8, <3>1 DEF Got, MeantCells, get_sequencer_address
  <2> QED BY <2>3, <2>4, <2>5, <2>6, <2>7, <2>8 DEF Getters, InfoOps
<1> QED BY <1>3, <1>5, <1>6, <1>7

LEMMA GetterStep ==
    ASSUME IInv, GetterSyscall
    PROVE  IInv'
<1>1. PICK op \in Getters : Asks(op) /\ Getter(op)
  BY DEF GetterSyscall
<1>2. /\ RunInv /\ stack # <<>> /\ op \in Offered
      /\ FrameTypes(Top) /\ Top.asked \in Nat
      /\ Top.asked < Len(Top.script) /\ op = Top.script[Top.asked + 1]
      /\ result_iter = ResultsLeft(Top)
      /\ deployed_contracts_iter = DeployedLeft(Top)
      /\ execute_code_read_iter = ReadsLeft(Top)
  BY <1>1, AsksFacts
<1>3. /\ CanGet(op) /\ ResponseSize(op) > 0
      /\ DOMAIN Got(op) = 1 .. ResponseSize(op) /\ Len(Got(op)) = ResponseSize(op)
      /\ op \notin Exempt => Got(op) = MeantCells(Top, Top.asked, txs)
      /\ op = "GetTxSignature" /\ ~HasTxInfo => tx_info_ptr.seg = ContextSeg(txs)
  BY <1>1, GotRight
<1>4. CASE op = "GetTxSignature" /\ ~HasTxInfo /\ Lost("syscall_error")
  <2>1. Top.asked + 1 \in DOMAIN Top.script /\ Top.script[Top.asked + 1] \in InfoOps
    BY <1>2, <1>4 DEF FrameTypes, InfoOps
  <2>2. status' = "syscall_error" /\ UNCHANGED <<stack, tx_info_ptr, txs>>
    BY <1>4 DEF Lost, txVars
  <2> QED BY <1>3, <1>4, <2>1, <2>2, LostStep
<1>5. CASE Respond(op, Got(op)) /\ UNCHANGED <<callVars, iterVars, vmVars, txVars>>
  <2>1. op \notin InnerOps /\ op \notin CallOps /\ op # "Deploy" /\ op # "StorageRead"
    BY <1>1 DEF InnerOps, CallOps, Getters
  <2>2. PICK cells : cells = Got(op)
    OBVIOUS
  <2>3. PICK w, g : /\ Asking(Top, op, w, cells, g) /\ Next1(Top, op, g)
                    /\ stack' = OnTop(g) /\ status' = "running"
    BY <1>1, <1>3, <1>5, <2>2, RespondStep
  <2>4. /\ result_iter' = ResultsLeft(g) /\ deployed_contracts_iter' = DeployedLeft(g)
        /\ execute_code_read_iter' = ReadsLeft(g)
    <3>1. ResultsLeft(g) = ResultsLeft(Top)
      BY <2>1, <2>3, ResultsNext
    <3>2. DeployedLeft(g) = DeployedLeft(Top)
      BY <2>1, <2>3, DeployedNext
    <3>3. ReadsLeft(g) = ReadsLeft(Top)
      BY <2>1, <2>3, ReadsNext
    <3> QED BY <1>2, <1>5, <3>1, <3>2, <3>3 DEF iterVars
  <2>5. temporary' = temporary /\ temporary' \in Seq(Seq(Nat)) /\ Keeps(temporary, temporary')
    BY <1>2, <1>5 DEF RunInv, TxInStep, vmVars, Keeps
  <2>6. CellsRight(Top, op, cells, temporary', txs, Exempt)
    <3>1. op \notin Exempt => cells = MeantCells(Top, Top.asked, txs)
      BY <1>3, <2>2
    <3> QED BY <2>1, <3>1 DEF CellsRight
  <2>7. UNCHANGED <<callVars, txVars, relocation_rules>>
    BY <1>5 DEF vmVars
  <2>8. RunInv'
    BY <1>2, <2>1, <2>3, <2>4, <2>5, <2>6, <2>7, AskStep
  <2> QED BY <2>3, <2>8 DEF IInv, NothingIsRefused
<1> QED BY <1>1, <1>3, <1>4, <1>5 DEF Getter

-----------------------------------------------------------------------------
(* A stack and its temporary segments, in step.                            *)

StackInv(s, temp, rules, tx, exempt) ==
    /\ IsStack(s)
    /\ \A i \in 1 .. Len(s) : /\ FrameTypes(s[i]) /\ FrameLaid(s[i])
                              /\ FrameAnswered(s[i], temp, tx, exempt)
    /\ \A i \in 1 .. Len(s) - 1 : Calling(s[i], s[i + 1])
    /\ Segments(s, temp, rules)

LEMMA RunIsStackInv ==
    RunInv <=> /\ TxInStep /\ CodeInStep
               /\ StackInv(stack, temporary, relocation_rules, txs, Exempt)
  BY DEF RunInv, StackInv, TxInStep, FramesInStep, CallsInStep, SegmentsInStep

\* g is f but for the second pass.
SameCode(f, g) ==
    /\ DOMAIN g = DOMAIN f
    /\ g.call = f.call /\ g.script = f.script /\ g.asked = f.asked /\ g.mem = f.mem
    /\ g.ptr = f.ptr /\ g.retdata = f.retdata

LEMMA SameAnswered ==
    ASSUME NEW f, NEW g, SameCode(f, g), NEW temp, NEW tx, NEW exempt,
           FrameAnswered(f, temp, tx, exempt)
    PROVE  FrameAnswered(g, temp, tx, exempt) /\ \A j : Guess(g, j) = Guess(f, j)
<1>1. \A j : Guess(g, j) = Guess(f, j)
  BY DEF SameCode, Guess
<1>2. \A j : MeantCells(g, j, tx) = MeantCells(f, j, tx) /\ MeantResult(g, j) = MeantResult(f, j)
  BY MeantSame DEF SameCode
<1>3. \A j : GuessRight(f, j, temp) => GuessRight(g, j, temp)
  BY <1>1, <1>2 DEF GuessRight, SameCode
<1>4. \A j : AnswerRight(f, j, tx) => AnswerRight(g, j, tx)
  BY <1>2 DEF AnswerRight, SameCode
<1> QED BY <1>1, <1>3, <1>4 DEF FrameAnswered, SameCode

\* The top in the second pass, replaced by the same code, further on.
LEMMA TopReplaced ==
    ASSUME NEW s, NEW temp, NEW rules, NEW tx, NEW exempt,
           StackInv(s, temp, rules, tx, exempt), s # <<>>,
           NEW g, SameCode(s[Len(s)], g), FrameTypes(g), FrameLaid(g),
           NEW t, t = Retopped(s, g), NEW more, Segments(t, temp, more)
    PROVE  StackInv(t, temp, more, tx, exempt) /\ t # <<>> /\ t[Len(t)] = g
<1>1. PICK n \in Nat : n = Len(s) /\ n > 0
  BY StackElements DEF StackInv
<1>2. /\ IsStack(t) /\ Len(t) = Len(s) /\ t[Len(s)] = g /\ t # <<>>
      /\ \A i \in 1 .. Len(s) - 1 : t[i] = s[i]
  BY StackTop DEF StackInv
<1>3. /\ Len(t) = n /\ t[n] = g
      /\ \A i \in 1 .. n - 1 : t[i] = s[i]
  BY <1>1, <1>2
<1>4. ASSUME NEW i \in 1 .. n
      PROVE  /\ FrameTypes(t[i]) /\ FrameLaid(t[i])
             /\ FrameAnswered(t[i], temp, tx, exempt)
  <2>1. FrameTypes(s[i]) /\ FrameLaid(s[i]) /\ FrameAnswered(s[i], temp, tx, exempt)
    BY <1>1 DEF StackInv
  <2>2. CASE i = n
    <3>1. SameCode(s[n], g) /\ FrameAnswered(s[n], temp, tx, exempt)
      BY <1>1, <2>1, <2>2
    <3>2. FrameAnswered(g, temp, tx, exempt)
      BY <3>1, SameAnswered
    <3> QED BY <1>3, <2>2, <3>2
  <2>3. CASE i # n
    BY <1>1, <1>3, <2>1, <2>3
  <2> QED BY <2>2, <2>3
<1>5. ASSUME NEW i \in 1 .. n - 1
      PROVE  Calling(t[i], t[i + 1])
  <2>1. Calling(s[i], s[i + 1]) /\ t[i] = s[i]
    BY <1>1, <1>3 DEF StackInv
  <2>2. t[i + 1].retdata = s[i + 1].retdata
    <3>1. CASE i + 1 = n
      BY <1>1, <1>3, <3>1 DEF SameCode
    <3>2. CASE i + 1 # n
      <4>1. i + 1 \in 1 .. n - 1
        BY <1>1, <3>2
      <4> QED BY <1>3, <4>1
    <3> QED BY <3>1, <3>2
  <2> QED BY <2>1, <2>2 DEF Calling
<1>6. StackInv(t, temp, more, tx, exempt)
  BY <1>2, <1>3, <1>4, <1>5 DEF StackInv
<1> QED BY <1>2, <1>3, <1>6

\* A finished entry point may be taken off.
LEMMA StackShrinks ==
    ASSUME NEW s, NEW temp, NEW rules, NEW tx, NEW exempt,
           StackInv(s, temp, rules, tx, exempt), s # <<>>,
           Pending(s[Len(s)]) = {}, NEW t, t = SubSeq(s, 1, Len(s) - 1)
    PROVE  StackInv(t, temp, rules, tx, exempt)
<1>1. PICK n \in Nat : n = Len(s) /\ n > 0
  BY StackElements DEF StackInv
<1>2. IsStack(t) /\ Len(t) = Len(s) - 1 /\ \A i \in 1 .. Len(s) - 1 : t[i] = s[i]
  BY StackPop DEF StackInv
<1>3. Len(t) = n - 1 /\ \A i \in 1 .. n - 1 : t[i] = s[i]
  BY <1>1, <1>2
<1>4. \A i \in 1 .. n - 1 : /\ FrameTypes(t[i]) /\ FrameLaid(t[i])
                            /\ FrameAnswered(t[i], temp, tx, exempt)
  BY <1>1, <1>3 DEF StackInv
<1>5. ASSUME NEW i \in 1 .. (n - 1) - 1
      PROVE  Calling(t[i], t[i + 1])
  <2>1. i \in 1 .. n - 1 /\ i + 1 \in 1 .. n - 1
    BY <1>1
  <2> QED BY <1>1, <1>3, <2>1 DEF StackInv
<1>6. Among(t, s)
  <2> SUFFICES ASSUME NEW i \in 1 .. n - 1, NEW j \in Pending(t[i])
               PROVE  /\ i \in 1 .. n /\ j \in Pending(s[i])
                      /\ Guess(t[i], j) = Guess(s[i], j)
    BY <1>1, <1>3 DEF Among
  <2> QED BY <1>1, <1>3
<1>7. Among(s, t)
  <2> SUFFICES ASSUME NEW i \in 1 .. n, NEW j \in Pending(s[i])
               PROVE  /\ i \in 1 .. n - 1 /\ j \in Pending(t[i])
                      /\ Guess(s[i], j) = Guess(t[i], j)
    BY <1>1, <1>3 DEF Among
  <2>1. i # n
    BY <1>1
  <2>2. i \in 1 .. n - 1
    BY <1>1, <2>1
  <2> QED BY <1>3, <2>2
<1>8. Segments(t, temp, rules)
  BY <1>6, <1>7, SegmentsKept DEF StackInv
<1> QED BY <1>2, <1>3, <1>4, <1>5, <1>8 DEF StackInv

-----------------------------------------------------------------------------
(* What the OS finds in the second pass.                                   *)

\* f is in the second pass, before syscall op.
Before(f, op) ==
    /\ FrameTypes(f) /\ FrameLaid(f) /\ f.pass = "os"
    /\ Here(f) < Len(f.script) /\ op = f.script[Here(f) + 1]

LEMMA OsFrame ==
    ASSUME NEW f, FrameTypes(f), FrameLaid(f), f.pass = "os"
    PROVE  /\ Here(f) \in Nat /\ f.asked = Len(f.script) /\ Len(f.script) \in Nat
           /\ f.os_ptr # f.ptr => Here(f) < Len(f.script)
           /\ f.os_ptr = f.ptr => Here(f) = Len(f.script) /\ Pending(f) = {}
<1>1. /\ Here(f) \in Nat /\ f.asked = Len(f.script) /\ Len(f.script) \in Nat
      /\ Here(f) <= Len(f.script) /\ f.script \in Seq(Offered)
  BY DEF FrameTypes, Here
<1>2. f.os_ptr = At(f.script, Here(f)) /\ f.ptr = At(f.script, Len(f.script))
  BY <1>1 DEF FrameLaid
<1>3. At(f.script, Here(f)) \in Nat /\ At(f.script, Len(f.script)) \in Nat
  BY <1>1, AtLemma
<1>4. ASSUME Here(f) < Len(f.script) PROVE f.os_ptr # f.ptr
  <2>1. At(f.script, Here(f)) < At(f.script, Len(f.script))
    BY <1>1, <1>4, AtGrows
  <2> QED BY <1>2, <1>3, <2>1
<1>5. ASSUME Here(f) = Len(f.script) PROVE Pending(f) = {} /\ f.os_ptr = f.ptr
  <2>1. Here(f) .. f.asked - 1 = {}
    BY <1>1, <1>5
  <2> QED BY <1>2, <1>5, <2>1 DEF Pending
<1> QED BY <1>1, <1>4, <1>5

LEMMA BeforeFacts ==
    ASSUME NEW f, NEW op, Before(f, op)
    PROVE  /\ Here(f) \in Nat /\ Here(f) \in 0 .. f.asked - 1 /\ op \in Offered
           /\ f.asked = Len(f.script) /\ Found(f) = op
<1>1. /\ Here(f) \in Nat /\ f.asked = Len(f.script) /\ Len(f.script) \in Nat
      /\ Here(f) < Len(f.script)
  BY OsFrame DEF Before
<1>2. Here(f) \in 0 .. f.asked - 1 /\ op \in Offered
  BY <1>1 DEF Before, FrameTypes
<1>3. f.mem[f.os_ptr] = Felt(selector(op))
  BY <1>2 DEF Before, FrameLaid
<1>4. selector(op) \in Selectors /\ Syscalls[selector(op)] = op
  BY <1>2, SelectorLemma
<1>5. Found(f) = op
  BY <1>3, <1>4 DEF Found, Felt
<1> QED BY <1>1, <1>2, <1>5

\* What the OS executes is what the recording has.
LEMMA ActualsMeant ==
    ASSUME NEW f, NEW op, Before(f, op)
    PROVE  /\ ActualCells(f, op) = MeantCells(f, Here(f), txs)
           /\ ActualRetdata(f, op) = MeantResult(f, Here(f))
<1>1. \A ops : Done(f, ops) = CountIn(f.script, Here(f), ops)
  <2> TAKE ops
  <2>1. \A i \in 1 .. Here(f) : f.os_done[i] = f.script[i]
    BY DEF Before, FrameTypes
  <2>2. CountIn(f.os_done, Here(f), ops) = CountIn(f.script, Here(f), ops)
    BY <2>1, CountSame
  <2> QED BY <2>2 DEF Done, Here
<1>2. op = f.script[Here(f) + 1]
  BY DEF Before
<1>3. ActualRetdata(f, op) = MeantResult(f, Here(f))
  BY <1>1, <1>2 DEF ActualRetdata, MeantResult
<1>4. ActualCells(f, op) = MeantCells(f, Here(f), txs)
  BY <1>1, <1>2 DEF ActualCells, MeantCells, ActualAddress
<1> QED BY <1>3, <1>4

LEMMA MeantSize ==
    ASSUME NEW f, NEW j, NEW tx, NEW op \in Offered, op = f.script[j + 1], op \notin CallOps
    PROVE  MeantCells(f, j, tx) = [i \in 1 .. ResponseSize(op) |-> MeantCells(f, j, tx)[i]]
<1>1. op \in OtherOps \cup Getters
  BY OpsLemma
<1>2. CASE op = "Deploy"
  <2>1. ResponseSize(op) = 3 /\ \E x, y, z : MeantCells(f, j, tx) = <<x, y, z>>
    BY <1>2 DEF ResponseSize, CallOps, MeantCells
  <2> QED BY <2>1
<1>3. CASE op = "GetTxSignature"
  <2>1. ResponseSize(op) = 2 /\ \E x, y : MeantCells(f, j, tx) = <<x, y>>
    BY <1>3 DEF ResponseSize, CallOps, MeantCells
  <2> QED BY <2>1
<1>4. CASE op \in {"StorageRead"} \cup (Getters \ {"GetTxSignature"})
  <2>1. ResponseSize(op) = 1
    BY <1>4 DEF ResponseSize, CallOps, Getters
  <2>2. \E x : MeantCells(f, j, tx) = <<x>>
    BY <1>4 DEF MeantCells, Getters
  <2> QED BY <2>1, <2>2
<1>5. CASE op \in {"StorageWrite", "EmitEvent", "SendMessageToL1", "ReplaceClass"}
  <2>1. ResponseSize(op) = 0
    BY <1>5, SizeLemma
  <2>2. MeantCells(f, j, tx) = <<>>
    BY <1>5 DEF MeantCells
  <2>3. 1 .. 0 = {}
    OBVIOUS
  <2> QED BY <2>1, <2>2, <2>3
<1> QED BY <1>1, <1>2, <1>3, <1>4, <1>5 DEF OtherOps, Getters

\* The response of the first pass is the one the OS checks for.
LEMMA ResponseMeant ==
    ASSUME NEW f, NEW op, Before(f, op), NEW temp, NEW tx, NEW exempt,
           FrameAnswered(f, temp, tx, exempt)
    PROVE  /\ op \notin CallOps \cup exempt => Response(f, op) = MeantCells(f, Here(f), tx)
           /\ op \in CallOps =>
                 /\ Response(f, op)[1] = Felt(Len(MeantResult(f, Here(f))))
                 /\ Response(f, op)[2] = Ptr(-Guess(f, Here(f)), 0)
                 /\ Guess(f, Here(f)) \in DOMAIN temp
                 /\ temp[Guess(f, Here(f))] = MeantResult(f, Here(f))
<1>1. /\ Here(f) \in Nat /\ Here(f) \in 0 .. f.asked - 1 /\ op \in Offered
      /\ op = f.script[Here(f) + 1]
  BY BeforeFacts DEF Before
<1>2. f.os_ptr = At(f.script, Here(f)) /\ At(f.script, Here(f)) \in Nat
  BY <1>1, AtLemma DEF Before, FrameLaid
<1>3. ASSUME op \notin CallOps \cup exempt
      PROVE  Response(f, op) = MeantCells(f, Here(f), tx)
  <2>1. AnswerRight(f, Here(f), tx)
    BY <1>1, <1>3 DEF FrameAnswered
  <2>2. \A i \in 1 .. ResponseSize(op) :
           f.mem[f.os_ptr + RequestSize(op) + i - 1] = MeantCells(f, Here(f), tx)[i]
    BY <1>1, <1>2, <2>1 DEF AnswerRight
  <2>3. MeantCells(f, Here(f), tx)
          = [i \in 1 .. ResponseSize(op) |-> MeantCells(f, Here(f), tx)[i]]
    BY <1>1, <1>3, MeantSize
  <2>4. PICK q : q = MeantCells(f, Here(f), tx)
    OBVIOUS
  <2>5. q = [i \in 1 .. ResponseSize(op) |-> q[i]]
    BY <2>3, <2>4
  <2>6. Response(f, op) = [i \in 1 .. ResponseSize(op) |-> q[i]]
    BY <2>2, <2>4 DEF Response
  <2> QED BY <2>4, <2>5, <2>6
<1>4. ASSUME op \in CallOps
      PROVE  /\ Response(f, op)[1] = Felt(Len(MeantResult(f, Here(f))))
             /\ Response(f, op)[2] = Ptr(-Guess(f, Here(f)), 0)
             /\ Guess(f, Here(f)) \in DOMAIN temp
             /\ temp[Guess(f, Here(f))] = MeantResult(f, Here(f))
  <2>1. GuessRight(f, Here(f), temp)
    BY <1>1, <1>4 DEF FrameAnswered
  <2>2. RequestSize(op) = 5 /\ ResponseSize(op) = 2
    BY <1>1, <1>4, SizeLemma
  <2>3. PICK p \in Nat : p = f.os_ptr
    BY <1>2
  <2>4. Response(f, op)[1] = f.mem[p + 5 + 1 - 1] /\ Response(f, op)[2] = f.mem[p + 5 + 2 - 1]
    BY <2>2, <2>3 DEF Response
  <2>5. p + 5 + 1 - 1 = p + 5 /\ p + 5 + 2 - 1 = p + 6
    OBVIOUS
  <2>6. Response(f, op)[1] = f.mem[p + 5] /\ Response(f, op)[2] = f.mem[p + 6]
    BY <2>4, <2>5
  <2> QED BY <1>2, <2>1, <2>3, <2>6 DEF GuessRight
<1> QED BY <1>3, <1>4

LEMMA ExitFrame ==
    ASSUME NEW f, NEW op, Before(f, op), NEW g, g = exit_syscall(f, op)
    PROVE  /\ SameCode(f, g) /\ FrameTypes(g) /\ FrameLaid(g) /\ g.pass = "os"
           /\ Pending(g) = Pending(f) \ {Here(f)}
           /\ op \in CallOps => Here(f) \in Pending(f)
           /\ op \notin CallOps => Pending(g) = Pending(f)
<1>1. /\ Here(f) \in Nat /\ Here(f) \in 0 .. f.asked - 1 /\ op \in Offered
      /\ f.asked = Len(f.script) /\ op = f.script[Here(f) + 1]
      /\ FrameTypes(f) /\ FrameLaid(f) /\ f.pass = "os"
  BY BeforeFacts DEF Before
<1>2. /\ DOMAIN g = FrameFields
      /\ g.call = f.call /\ g.script = f.script /\ g.asked = f.asked /\ g.mem = f.mem
      /\ g.ptr = f.ptr /\ g.retdata = f.retdata /\ g.pass = "os"
      /\ g.os_ptr = f.os_ptr + SyscallSize(op) /\ g.os_done = Append(f.os_done, op)
  BY <1>1 DEF exit_syscall, FrameTypes, FrameFields
<1>3. SameCode(f, g)
  BY <1>1, <1>2 DEF SameCode, FrameTypes
<1>4. PICK q : q = f.os_done /\ q \in Seq(Offered) /\ Len(q) = Here(f)
  BY <1>1 DEF FrameTypes, Here
<1>5. /\ g.os_done \in Seq(Offered) /\ Here(g) = Here(f) + 1
      /\ \A i \in 1 .. Here(f) + 1 : g.os_done[i] = f.script[i]
  <2>1. /\ Append(q, op) \in Seq(Offered) /\ Len(Append(q, op)) = Here(f) + 1
        /\ Append(q, op)[Here(f) + 1] = op
        /\ \A i \in 1 .. Here(f) : Append(q, op)[i] = q[i]
    BY <1>1, <1>4
  <2>2. \A i \in 1 .. Here(f) : q[i] = f.script[i]
    BY <1>1, <1>4 DEF FrameTypes
  <2>3. ASSUME NEW i \in 1 .. Here(f) + 1 PROVE Append(q, op)[i] = f.script[i]
    <3>1. CASE i = Here(f) + 1
      BY <1>1, <2>1, <3>1
    <3>2. CASE i # Here(f) + 1
      <4>1. i \in 1 .. Here(f)
        BY <1>1, <3>2
      <4> QED BY <2>1, <2>2, <4>1
    <3> QED BY <3>1, <3>2
  <2> QED BY <1>2, <1>4, <2>1, <2>3 DEF Here
<1>6. FrameTypes(g)
  <2>1. Here(f) + 1 <= f.asked
    BY <1>1
  <2> QED BY <1>1, <1>2, <1>5, <2>1 DEF FrameTypes
<1>7. FrameLaid(g)
  <2>1. At(f.script, Here(f) + 1) = At(f.script, Here(f)) + SyscallSize(op)
    BY <1>1, AtLemma
  <2>2. g.os_ptr = At(g.script, Here(g))
    BY <1>1, <1>2, <1>5, <2>1 DEF FrameLaid
  <2> QED BY <1>1, <1>2, <2>2 DEF FrameLaid
<1>8. Pending(g) = Pending(f) \ {Here(f)}
  <2>1. PICK n \in Nat, a \in Nat : n = Here(f) /\ a = f.asked /\ n \in 0 .. a - 1
    BY <1>1 DEF FrameTypes
  <2>2. n + 1 .. a - 1 = (n .. a - 1) \ {n}
    BY <2>1
  <2> QED BY <1>2, <1>5, <2>1, <2>2 DEF Pending
<1>9. op \in CallOps <=> Here(f) \in Pending(f)
  <2>1. Here(f) \in Here(f) .. f.asked - 1
    BY <1>1
  <2> QED BY <1>1, <2>1 DEF Pending
<1> QED BY <1>2, <1>3, <1>6, <1>7, <1>8, <1>9

\* The entry point on top goes on after a syscall that gets no segment, ...
LEMMA AdvanceOther ==
    ASSUME NEW s, NEW temp, NEW rules, NEW tx, NEW exempt,
           StackInv(s, temp, rules, tx, exempt), s # <<>>,
           NEW op, Before(s[Len(s)], op), op \notin CallOps,
           NEW t, t = Retopped(s, exit_syscall(s[Len(s)], op))
    PROVE  StackInv(t, temp, rules, tx, exempt) /\ t # <<>> /\ t[Len(t)].pass = "os"
<1>1. PICK n \in Nat : n = Len(s) /\ n > 0
  BY StackElements DEF StackInv
<1>2. PICK f, g : f = s[n] /\ g = exit_syscall(f, op)
  OBVIOUS
<1>3. FrameAnswered(f, temp, tx, exempt) /\ Before(f, op)
  BY <1>1, <1>2 DEF StackInv
<1>4. /\ SameCode(f, g) /\ FrameTypes(g) /\ FrameLaid(g) /\ g.pass = "os"
      /\ Pending(g) = Pending(f)
  BY <1>2, <1>3, ExitFrame
<1>5. \A j : Guess(g, j) = Guess(f, j)
  BY <1>3, <1>4, SameAnswered
<1>6. /\ Len(t) = n /\ t[n] = g
      /\ \A i \in 1 .. n - 1 : t[i] = s[i]
  <2>1. IsStack(s) /\ t = Retopped(s, g)
    BY <1>1, <1>2 DEF StackInv
  <2>2. /\ Len(t) = Len(s) /\ t[Len(s)] = g
        /\ \A i \in 1 .. Len(s) - 1 : t[i] = s[i]
    BY <2>1, StackTop
  <2> QED BY <1>1, <2>2
<1>7. ASSUME NEW i \in 1 .. n
      PROVE  Pending(t[i]) = Pending(s[i]) /\ \A j : Guess(t[i], j) = Guess(s[i], j)
  <2>1. CASE i = n
    BY <1>2, <1>4, <1>5, <1>6, <2>1
  <2>2. CASE i # n
    BY <1>1, <1>6, <2>2
  <2> QED BY <2>1, <2>2
<1>8. Among(t, s) /\ Among(s, t)
  BY <1>1, <1>6, <1>7 DEF Among
<1>9. Segments(t, temp, rules)
  BY <1>8, SegmentsKept DEF StackInv
<1>10. StackInv(t, temp, rules, tx, exempt) /\ t # <<>> /\ t[Len(t)] = g
  <2>1. SameCode(s[Len(s)], g) /\ t = Retopped(s, g)
    BY <1>1, <1>2, <1>4
  <2> QED BY <1>4, <1>9, <2>1, TopReplaced
<1> QED BY <1>4, <1>10

\* ... and after a call, whose segment gets its rule.
LEMMA AdvanceCall ==
    ASSUME NEW s, NEW temp, NEW rules, NEW tx, NEW exempt,
           StackInv(s, temp, rules, tx, exempt), s # <<>>,
           NEW op, Before(s[Len(s)], op), op \in CallOps,
           NEW t, t = Retopped(s, exit_syscall(s[Len(s)], op)),
           NEW T \in DOMAIN temp, T = Guess(s[Len(s)], Here(s[Len(s)])),
           NEW more, more = WithRule(rules, T, temp)
    PROVE  StackInv(t, temp, more, tx, exempt) /\ t # <<>> /\ t[Len(t)].pass = "os"
<1>1. PICK n \in Nat : n = Len(s) /\ n > 0
  BY StackElements DEF StackInv
<1>2. PICK f, g, a : f = s[n] /\ g = exit_syscall(f, op) /\ a = Here(f)
  OBVIOUS
<1>3. FrameAnswered(f, temp, tx, exempt) /\ Before(f, op)
  BY <1>1, <1>2 DEF StackInv
<1>4. /\ SameCode(f, g) /\ FrameTypes(g) /\ FrameLaid(g) /\ g.pass = "os"
      /\ Pending(g) = Pending(f) \ {a} /\ a \in Pending(f)
  BY <1>2, <1>3, ExitFrame
<1>5. \A j : Guess(g, j) = Guess(f, j)
  BY <1>3, <1>4, SameAnswered
<1>6. /\ Len(t) = n /\ t[n] = g
      /\ \A i \in 1 .. n - 1 : t[i] = s[i]
  <2>1. IsStack(s) /\ t = Retopped(s, g)
    BY <1>1, <1>2 DEF StackInv
  <2>2. /\ Len(t) = Len(s) /\ t[Len(s)] = g
        /\ \A i \in 1 .. Len(s) - 1 : t[i] = s[i]
    BY <2>1, StackTop
  <2> QED BY <1>1, <2>2
<1>7. ASSUME NEW i \in 1 .. n
      PROVE  /\ \A j : Guess(t[i], j) = Guess(s[i], j)
             /\ \A j \in Pending(t[i]) : j \in Pending(s[i])
             /\ \A j \in Pending(s[i]) : ~(i = n /\ j = a) => j \in Pending(t[i])
  <2>1. CASE i = n
    BY <1>2, <1>4, <1>5, <1>6, <2>1
  <2>2. CASE i # n
    BY <1>1, <1>6, <2>2
  <2> QED BY <2>1, <2>2
<1>8. Among(t, s)
  BY <1>1, <1>6, <1>7 DEF Among
<1>9. Segments(t, temp, more)
  <2>1. /\ Segments(s, temp, rules) /\ n \in 1 .. Len(s) /\ a \in Pending(s[n])
        /\ (n \in 1 .. Len(t) => a \notin Pending(t[n])) /\ T = Guess(s[n], a)
    BY <1>1, <1>2, <1>4, <1>6 DEF StackInv
  <2>2. \A i \in 1 .. Len(s) : \A j \in Pending(s[i]) :
           ~(i = n /\ j = a) => i \in 1 .. Len(t) /\ j \in Pending(t[i])
    BY <1>1, <1>6, <1>7
  <2> QED BY <1>8, <2>1, <2>2, SegmentMoved
<1>10. StackInv(t, temp, more, tx, exempt) /\ t # <<>> /\ t[Len(t)] = g
  <2>1. SameCode(s[Len(s)], g) /\ t = Retopped(s, g)
    BY <1>1, <1>2, <1>4
  <2> QED BY <1>4, <1>9, <2>1, TopReplaced
<1> QED BY <1>4, <1>10

-----------------------------------------------------------------------------
(* Steps of the second pass.                                               *)

\* The OS checks an inner call of the entry point on top of frames.
LEMMA CheckStep ==
    ASSUME TxInStep, status = "running", stack # <<>>, NEW frames, frames # <<>>,
           StackInv(frames, temporary, relocation_rules, txs, Exempt),
           NEW op \in InnerOps, Before(frames[Len(frames)], op),
           NEW retdata, retdata = MeantResult(frames[Len(frames)], Here(frames[Len(frames)])),
           CheckCall(frames, op, retdata), UNCHANGED <<callVars, iterVars, txVars>>
    PROVE  IInv'
<1>1. PICK f, a, t : /\ f = frames[Len(frames)] /\ a = Here(f)
                     /\ t = Retopped(frames, exit_syscall(f, op))
  OBVIOUS
<1>2. FrameAnswered(f, temporary, txs, Exempt) /\ Before(f, op)
  <2>1. Len(frames) \in 1 .. Len(frames)
    BY StackElements DEF StackInv
  <2> QED BY <1>1, <2>1 DEF StackInv
<1>3. /\ op \notin CallOps \cup Exempt => Response(f, op) = MeantCells(f, a, txs)
      /\ op \in CallOps =>
            /\ Response(f, op)[1] = Felt(Len(MeantResult(f, a)))
            /\ Response(f, op)[2] = Ptr(-Guess(f, a), 0)
            /\ Guess(f, a) \in DOMAIN temporary
            /\ temporary[Guess(f, a)] = MeantResult(f, a)
  BY <1>1, <1>2, ResponseMeant
<1>4. ActualCells(f, op) = MeantCells(f, a, txs) /\ retdata = MeantResult(f, a)
  BY <1>1, <1>2, ActualsMeant
<1>5. Exempt' = Exempt /\ txs' = txs /\ todo' = todo /\ tx_info_ptr' = tx_info_ptr
  BY DEF Exempt, txVars
<1>6. ASSUME stack' = t, status' = "running", temporary' = temporary,
             StackInv(t, temporary, relocation_rules', txs, Exempt), t # <<>>,
             t[Len(t)].pass = "os"
      PROVE  IInv'
  <2>1. TxInStep'
    BY <1>5, <1>6 DEF TxInStep, StackInv
  <2>2. CodeInStep'
    BY <1>6 DEF CodeInStep
  <2>3. RunInv'
    BY <1>5, <1>6, <2>1, <2>2
       DEF RunInv, StackInv, FramesInStep, CallsInStep, SegmentsInStep
  <2> QED BY <1>6, <2>3 DEF IInv, NothingIsRefused
<1>7. CASE op = "Deploy"
  <2>1. op \notin CallOps /\ op \notin Exempt
    BY <1>7 DEF CallOps, Exempt, InfoOps
  <2>2. Response(f, op) = ActualCells(f, op)
    BY <1>3, <1>4, <2>1
  <2>3. stack' = t /\ UNCHANGED <<status, vmVars>>
    BY <1>1, <1>7, <2>2 DEF CheckCall, Retopped
  <2>4. /\ StackInv(t, temporary, relocation_rules, txs, Exempt) /\ t # <<>>
        /\ t[Len(t)].pass = "os"
    BY <1>1, <2>1, AdvanceOther
  <2> QED BY <1>6, <2>3, <2>4 DEF vmVars
<1>8. CASE op \in CallOps
  <2>1. PICK T, r : T = Guess(f, a) /\ r = Response(f, op)
    OBVIOUS
  <2>2. /\ r[1] = Felt(Len(retdata)) /\ r[2] = Ptr(-T, 0)
        /\ T \in DOMAIN temporary /\ temporary[T] = retdata
    BY <1>3, <1>4, <1>8, <2>1
  <2>3. T \in Nat /\ T > 0
    BY <2>2 DEF TxInStep
  <2>4. r[2].off = 0 /\ r[2].seg < 0 /\ -r[2].seg = T
    BY <2>2, <2>3 DEF Ptr
  <2>5. T \notin DOMAIN relocation_rules
    <3>1. a \in Pending(f)
      BY <1>1, <1>2, <1>8, ExitFrame
    <3>2. Unmoved(frames, relocation_rules) /\ Len(frames) \in 1 .. Len(frames)
      BY StackElements DEF StackInv, Segments
    <3> QED BY <1>1, <2>1, <3>1, <3>2 DEF Unmoved
  <2>6. check_syscall_response(r, retdata) /\ CanRelocate(r[2])
    BY <2>2, <2>4, <2>5 DEF check_syscall_response, CanRelocate
  <2>7. op # "Deploy"
    BY <1>8 DEF CallOps
  <2>8. /\ add_relocation_rule(r[2], retdata) /\ stack' = t
        /\ UNCHANGED <<status, temporary>>
    BY <1>1, <2>1, <2>6, <2>7 DEF CheckCall, Retopped
  <2>9. relocation_rules' = WithRule(relocation_rules, T, temporary)
    BY <2>2, <2>4, <2>8 DEF add_relocation_rule, WithRule
  <2>10. PICK more : more = relocation_rules'
    OBVIOUS
  <2>11. /\ StackInv(t, temporary, more, txs, Exempt) /\ t # <<>>
         /\ t[Len(t)].pass = "os"
    BY <1>1, <1>8, <2>1, <2>2, <2>9, <2>10, AdvanceCall
  <2> QED BY <1>6, <2>8, <2>10, <2>11
<1> QED BY <1>7, <1>8 DEF InnerOps

LEMMA ExecutingFacts ==
    ASSUME IInv, Executing
    PROVE  /\ RunInv /\ stack # <<>> /\ status = "running" /\ TxInStep
           /\ StackInv(stack, temporary, relocation_rules, txs, Exempt)
           /\ Top = stack[Len(stack)] /\ FrameAnswered(Top, temporary, txs, Exempt)
           /\ AtEnd => Pending(Top) = {}
           /\ ~AtEnd => Before(Top, Top.script[Here(Top) + 1])
                        /\ Found(Top) = Top.script[Here(Top) + 1]
<1>1. RunInv /\ stack # <<>> /\ status = "running" /\ Top.pass = "os"
  BY DEF IInv, Executing
<1>2. /\ TxInStep /\ StackInv(stack, temporary, relocation_rules, txs, Exempt)
  BY <1>1, RunIsStackInv
<1>3. /\ Top = stack[Len(stack)] /\ FrameTypes(Top) /\ FrameLaid(Top)
      /\ FrameAnswered(Top, temporary, txs, Exempt)
  BY <1>1, TopFacts
<1>4. AtEnd => Pending(Top) = {}
  BY <1>1, <1>3, OsFrame DEF AtEnd
<1>5. ~AtEnd => Before(Top, Top.script[Here(Top) + 1])
  BY <1>1, <1>3, OsFrame DEF AtEnd, Before
<1>6. ~AtEnd => Found(Top) = Top.script[Here(Top) + 1]
  BY <1>5, BeforeFacts
<1> QED BY <1>1, <1>2, <1>3, <1>4, <1>5, <1>6

LEMMA OtherStep ==
    ASSUME IInv, ExecuteOther
    PROVE  IInv'
<1>1. PICK op \in InnerOps :
        /\ Executing /\ ~AtEnd /\ Found(Top) = op
        /\ CheckCall(stack, op, ActualRetdata(Top, op))
  BY DEF ExecuteOther, AtCall
<1>2. /\ stack # <<>> /\ status = "running" /\ TxInStep
      /\ StackInv(stack, temporary, relocation_rules, txs, Exempt)
      /\ Top = stack[Len(stack)] /\ Before(Top, op)
  BY <1>1, ExecutingFacts
<1>3. PICK retdata : retdata = ActualRetdata(Top, op)
  OBVIOUS
<1>4. retdata = MeantResult(Top, Here(Top))
  BY <1>2, <1>3, ActualsMeant
<1>5. UNCHANGED <<callVars, iterVars, txVars>>
  BY DEF ExecuteOther
<1> QED BY <1>1, <1>2, <1>3, <1>4, <1>5, CheckStep

LEMMA SyscallStep ==
    ASSUME IInv, ExecuteSyscall
    PROVE  IInv'
<1>1. /\ Executing /\ ~AtEnd /\ Found(Top) \notin InnerOps
      /\ UNCHANGED <<callVars, iterVars, vmVars, txVars>>
  BY DEF ExecuteSyscall
<1>2. PICK op : op = Top.script[Here(Top) + 1]
  OBVIOUS
<1>3. /\ stack # <<>> /\ status = "running" /\ TxInStep
      /\ StackInv(stack, temporary, relocation_rules, txs, Exempt)
      /\ Top = stack[Len(stack)] /\ FrameAnswered(Top, temporary, txs, Exempt)
      /\ Before(Top, op) /\ Found(Top) = op
  BY <1>1, <1>2, ExecutingFacts
<1>4. op \notin CallOps /\ op \in Offered
  BY <1>1, <1>3, BeforeFacts DEF InnerOps
<1>5. op # "unknown"
  BY <1>4, OpsLemma DEF CallOps, OtherOps, Getters
<1>6. /\ op \notin Exempt => Response(Top, op) = MeantCells(Top, Here(Top), txs)
      /\ ActualCells(Top, op) = MeantCells(Top, Here(Top), txs)
  BY <1>3, <1>4, ResponseMeant, ActualsMeant
<1>7. CASE stack' = OnTop(exit_syscall(Top, op)) /\ UNCHANGED status
  <2>1. PICK t : t = Retopped(stack, exit_syscall(Top, op)) /\ stack' = t
    BY <1>7 DEF OnTop, Retopped
  <2>2. /\ StackInv(t, temporary, relocation_rules, txs, Exempt) /\ t # <<>>
        /\ t[Len(t)].pass = "os"
    BY <1>3, <1>4, <2>1, AdvanceOther
  <2>3. /\ Exempt' = Exempt /\ txs' = txs /\ todo' = todo /\ tx_info_ptr' = tx_info_ptr
        /\ temporary' = temporary /\ relocation_rules' = relocation_rules
    BY <1>1 DEF Exempt, txVars, vmVars
  <2>4. TxInStep'
    BY <1>3, <2>1, <2>2, <2>3 DEF TxInStep, StackInv
  <2>5. CodeInStep'
    BY <2>1, <2>2 DEF CodeInStep
  <2>6. RunInv'
    BY <2>1, <2>2, <2>3, <2>4, <2>5
       DEF RunInv, StackInv, FramesInStep, CallsInStep, SegmentsInStep
  <2> QED BY <1>3, <1>7, <2>6 DEF IInv, NothingIsRefused
<1>8. CASE op \in Exempt /\ status' = "refused" /\ UNCHANGED stack
  <2>1. tx_info_ptr.seg = ContextSeg(txs) /\ op \in InfoOps
    BY <1>8 DEF Exempt
  <2>2. Here(Top) + 1 \in DOMAIN Top.script /\ Top.script[Here(Top) + 1] \in InfoOps
    <3>1. Here(Top) \in 0 .. Top.asked - 1 /\ Top.asked = Len(Top.script)
      BY <1>3, BeforeFacts
    <3>2. Top.script \in Seq(Offered)
      BY <1>3 DEF Before, FrameTypes
    <3> QED BY <1>2, <2>1, <3>1, <3>2
  <2>3. UNCHANGED <<stack, tx_info_ptr, txs>>
    BY <1>1, <1>8 DEF txVars
  <2> QED BY <1>8, <2>1, <2>2, <2>3, LostStep
<1> QED BY <1>3, <1>5, <1>6, <1>7, <1>8 DEF ExecuteSyscall

LEMMA ReturnStep ==
    ASSUME IInv, Return
    PROVE  IInv'
<1>1. Executing /\ AtEnd /\ UNCHANGED <<callVars, iterVars, txVars>>
  BY DEF Return
<1>2. /\ stack # <<>> /\ status = "running" /\ TxInStep
      /\ StackInv(stack, temporary, relocation_rules, txs, Exempt)
      /\ Top = stack[Len(stack)] /\ Pending(Top) = {}
  BY <1>1, ExecutingFacts
<1>3. PICK s, n, t : s = stack /\ n = Len(stack) /\ t = Below
  OBVIOUS
<1>4. n \in Nat /\ n > 0 /\ IsStack(s)
  BY <1>2, <1>3, StackElements DEF StackInv
<1>5. t = SubSeq(s, 1, Len(s) - 1)
  BY <1>3 DEF Below
<1>6. StackInv(t, temporary, relocation_rules, txs, Exempt)
  BY <1>2, <1>3, <1>5, StackShrinks
<1>7. /\ Len(t) = n - 1 /\ \A i \in 1 .. n - 1 : t[i] = s[i]
  <2>1. Len(t) = Len(s) - 1 /\ \A i \in 1 .. Len(s) - 1 : t[i] = s[i]
    BY <1>2, <1>3, <1>4, <1>5, StackPop
  <2> QED BY <1>3, <2>1
<1>8. CASE n = 1
  <2>1. stack' = <<>> /\ UNCHANGED <<status, vmVars>>
    BY <1>3, <1>8 DEF Return
  <2>2. t = <<>>
    BY <1>6, <1>7, <1>8, StackElements DEF StackInv
  <2>3. /\ Exempt' = Exempt /\ txs' = txs /\ todo' = todo /\ tx_info_ptr' = tx_info_ptr
        /\ temporary' = temporary /\ relocation_rules' = relocation_rules
    BY <1>1, <2>1 DEF Exempt, txVars, vmVars
  <2>4. TxInStep'
    BY <1>2, <1>6, <2>1, <2>2, <2>3 DEF TxInStep, StackInv
  <2>5. CodeInStep'
    BY <2>1 DEF CodeInStep
  <2>6. RunInv'
    BY <1>6, <2>1, <2>2, <2>3, <2>4, <2>5
       DEF RunInv, StackInv, FramesInStep, CallsInStep, SegmentsInStep
  <2> QED BY <1>2, <2>1, <2>6 DEF IInv, NothingIsRefused
<1>9. CASE n # 1
  <2>1. t # <<>>
    BY <1>4, <1>6, <1>7, <1>9, StackElements DEF StackInv
  <2>2. PICK f : f = t[Len(t)]
    OBVIOUS
  <2>3. n - 1 \in 1 .. n - 1 /\ (n - 1) + 1 = n
    BY <1>4, <1>9
  <2>4. /\ f = s[n - 1] /\ Calling(s[n - 1], s[(n - 1) + 1])
        /\ FrameTypes(f) /\ FrameLaid(f)
    BY <1>2, <1>3, <1>6, <1>7, <2>2, <2>3 DEF StackInv
  <2>5. Calling(f, Top)
    BY <1>2, <1>3, <2>3, <2>4
  <2>6. PICK op : op = f.script[Here(f) + 1]
    OBVIOUS
  <2>7. Before(f, op) /\ op \in InnerOps /\ Top.retdata = MeantResult(f, Here(f))
    BY <2>4, <2>5, <2>6 DEF Calling, Before
  <2>8. Found(f) = op
    BY <2>7, BeforeFacts
  <2>9. CheckCall(t, op, Top.retdata)
    BY <1>3, <1>9, <2>2, <2>8 DEF Return
  <2> QED BY <1>1, <1>2, <1>6, <2>1, <2>2, <2>7, <2>9, CheckStep
<1> QED BY <1>8, <1>9

LEMMA ExitStep ==
    ASSUME IInv, exit_call
    PROVE  IInv'
<1>1. /\ status = "running" /\ stack # <<>> /\ Top.pass = "code"
      /\ Top.asked = Len(Top.script) /\ RunInv
  BY DEF exit_call, Running, IInv
<1>2. /\ TxInStep /\ StackInv(stack, temporary, relocation_rules, txs, Exempt)
      /\ CodeInStep
  BY <1>1, RunIsStackInv
<1>3. /\ Top = stack[Len(stack)] /\ FrameTypes(Top) /\ FrameLaid(Top)
      /\ Len(stack) \in Nat /\ Len(stack) > 0
      /\ FrameAnswered(Top, temporary, txs, Exempt)
  BY <1>1, TopFacts
<1>4. result_iter = <<>> /\ deployed_contracts_iter = <<>> /\ execute_code_read_iter = <<>>
  BY <1>1, <1>2, <1>3, IteratorEnds DEF CodeInStep
<1>5. PICK g : g = [Top EXCEPT !.pass = "os"]
  OBVIOUS
<1>6. stack' = OnTop(g) /\ UNCHANGED <<status, iterVars, vmVars, txVars>>
  BY <1>4, <1>5 DEF exit_call
<1>7. /\ DOMAIN g = FrameFields
      /\ g.call = Top.call /\ g.script = Top.script /\ g.asked = Top.asked
      /\ g.mem = Top.mem /\ g.ptr = Top.ptr /\ g.retdata = Top.retdata /\ g.pass = "os"
      /\ g.os_ptr = Top.os_ptr /\ g.os_done = Top.os_done
  BY <1>3, <1>5 DEF FrameTypes, FrameFields
<1>8. SameCode(Top, g) /\ FrameTypes(g) /\ FrameLaid(g) /\ Pending(g) = Pending(Top)
  BY <1>1, <1>3, <1>7 DEF SameCode, FrameTypes, FrameLaid, Pending, Here
<1>9. \A j : Guess(g, j) = Guess(Top, j)
  BY <1>3, <1>8, SameAnswered
<1>10. PICK s, n, t, f : /\ s = stack /\ n = Len(s) /\ t = stack' /\ f = Top
                         /\ t = Retopped(s, g) /\ n \in Nat /\ n > 0
  BY <1>3, <1>6 DEF OnTop, Retopped
<1>11. /\ Len(t) = n /\ t[n] = g /\ \A i \in 1 .. n - 1 : t[i] = s[i]
  <2>1. IsStack(s) /\ s # <<>>
    BY <1>1, <1>2, <1>10 DEF StackInv
  <2>2. /\ Len(t) = Len(s) /\ t[Len(s)] = g
        /\ \A i \in 1 .. Len(s) - 1 : t[i] = s[i]
    BY <1>10, <2>1, StackTop
  <2> QED BY <1>10, <2>2
<1>12. ASSUME NEW i \in 1 .. n
       PROVE  Pending(t[i]) = Pending(s[i]) /\ \A j : Guess(t[i], j) = Guess(s[i], j)
  <2>1. CASE i = n
    BY <1>3, <1>8, <1>9, <1>10, <1>11, <2>1
  <2>2. CASE i # n
    BY <1>10, <1>11, <2>2
  <2> QED BY <2>1, <2>2
<1>13. Among(t, s) /\ Among(s, t)
  BY <1>10, <1>11, <1>12 DEF Among
<1>14. Segments(t, temporary, relocation_rules)
  <2>1. Segments(s, temporary, relocation_rules)
    BY <1>2, <1>10 DEF StackInv
  <2> QED BY <1>13, <2>1, SegmentsKept
<1>15. /\ StackInv(t, temporary, relocation_rules, txs, Exempt) /\ t # <<>>
       /\ t[Len(t)] = g
  <2>1. /\ StackInv(s, temporary, relocation_rules, txs, Exempt) /\ s # <<>>
        /\ SameCode(s[Len(s)], g)
    BY <1>1, <1>2, <1>3, <1>8, <1>10
  <2> QED BY <1>8, <1>10, <1>14, <2>1, TopReplaced
<1>16. /\ Exempt' = Exempt /\ txs' = txs /\ todo' = todo /\ tx_info_ptr' = tx_info_ptr
       /\ temporary' = temporary /\ relocation_rules' = relocation_rules
  BY <1>6 DEF Exempt, txVars, vmVars
<1>17. TxInStep'
  BY <1>1, <1>2, <1>10, <1>15, <1>16 DEF TxInStep, StackInv
<1>18. CodeInStep'
  BY <1>7, <1>10, <1>15 DEF CodeInStep
<1>19. RunInv'
  BY <1>10, <1>15, <1>16, <1>17, <1>18
     DEF RunInv, StackInv, FramesInStep, CallsInStep, SegmentsInStep
<1> QED BY <1>1, <1>6, <1>19 DEF IInv, NothingIsRefused

-----------------------------------------------------------------------------
(* Entry points begin.                                                     *)

\* g is a new entry point for the call.
Fresh(call, depth, script, retdata, g) ==
    /\ call \in CallSet /\ script \in Scripts(call.mode, depth)
    /\ g = Frame(call, script, retdata)

LEMMA FreshFrame ==
    ASSUME NEW call, NEW depth, NEW script, NEW retdata, NEW g,
           Fresh(call, depth, script, retdata, g)
    PROVE  /\ FrameTypes(g) /\ FrameLaid(g) /\ Pending(g) = {}
           /\ \A temp, tx, exempt : FrameAnswered(g, temp, tx, exempt)
           /\ g.call = call /\ g.script = script /\ g.pass = "code" /\ g.asked = 0
           /\ g.retdata = retdata
<1>0. PICK n \in Nat : \E ops :
        /\ script \in [1 .. n -> ops] /\ ops \subseteq Offered
        /\ call.mode = "validate" => "GetSequencerAddress" \notin ops
  <2>1. PICK ops : ops = IF call.mode = "validate" THEN Offered \ {"GetSequencerAddress"}
                                                   ELSE Offered
    OBVIOUS
  <2>2. PICK m \in Nat : m = IF depth = 1 THEN MaxSyscalls ELSE MaxInner
    BY DeprecatedAssumption
  <2>3. script \in UNION {[1 .. n -> ops] : n \in 0 .. m}
    BY <2>1, <2>2 DEF Fresh, Scripts
  <2>4. PICK n \in 0 .. m : script \in [1 .. n -> ops]
    BY <2>3
  <2>5. n \in Nat
    OBVIOUS
  <2>6. /\ ops \subseteq Offered
        /\ call.mode = "validate" => "GetSequencerAddress" \notin ops
    BY <2>1
  <2> QED BY <2>4, <2>5, <2>6
<1>1. PICK ops : /\ script \in [1 .. n -> ops] /\ ops \subseteq Offered
                 /\ call.mode = "validate" => "GetSequencerAddress" \notin ops
  BY <1>0
<1>2. /\ script \in Seq(Offered) /\ Len(script) = n
      /\ \A i \in 1 .. Len(script) : script[i] \in ops
  <2>1. script = [i \in 1 .. n |-> script[i]] /\ \A i \in 1 .. n : script[i] \in Offered
    BY <1>1
  <2>2. script \in Seq(Offered) /\ Len(script) = n
    BY <2>1, FunctionIsSeq
  <2> QED BY <1>1, <2>2
<1>3. /\ DOMAIN g = FrameFields
      /\ g.call = call /\ g.script = script /\ g.asked = 0 /\ g.mem = <<>> /\ g.ptr = 0
      /\ g.pass = "code" /\ g.os_ptr = 0 /\ g.os_done = <<>> /\ g.retdata = retdata
  BY DEF Fresh, Frame, FrameFields
<1>4. Here(g) = 0 /\ g.os_done \in Seq(Offered)
  BY <1>3 DEF Here
<1>5. FrameTypes(g)
  BY <1>1, <1>2, <1>3, <1>4 DEF Fresh, FrameTypes
<1>6. 0 .. 0 - 1 = {} /\ DOMAIN g.mem = {}
  BY <1>3
<1>7. FrameLaid(g)
  <2>1. At(script, 0) = 0
    BY AtLemma
  <2> QED BY <1>3, <1>4, <1>6, <2>1 DEF FrameLaid
<1>8. Pending(g) = {} /\ \A temp, tx, exempt : FrameAnswered(g, temp, tx, exempt)
  BY <1>3, <1>4, <1>6 DEF Pending, FrameAnswered
<1> QED BY <1>3, <1>5, <1>7, <1>8

LEMMA EnterStep ==
    ASSUME TxInStep, status = "running", tx_info_ptr # None, NEW below,
           StackInv(below, temporary, relocation_rules, txs, Exempt),
           NEW call \in CallSet, NEW retdata,
           below # <<>> => \A g : g.retdata = retdata => Calling(below[Len(below)], g),
           Enter(below, call, retdata), UNCHANGED <<status, txs, tx_info_ptr, vmVars>>,
           todo' \in Seq(Modes)
    PROVE  IInv'
<1>1. PICK script \in Scripts(call.mode, Len(below) + 1) :
        /\ stack' = Append(below, Frame(call, script, retdata))
        /\ call_info' = call
        /\ call_execution_info_ptr' = Ptr(ExecutionInfoSeg(Len(below) + 1), 0)
        /\ result_iter' = Results(script)
        /\ deployed_contracts_iter' = Deployed(script)
        /\ execute_code_read_iter' = Reads(script)
  BY DEF Enter
<1>2. PICK g, t : g = Frame(call, script, retdata) /\ t = stack'
  OBVIOUS
<1>3. /\ FrameTypes(g) /\ FrameLaid(g) /\ Pending(g) = {}
      /\ FrameAnswered(g, temporary, txs, Exempt)
      /\ g.call = call /\ g.script = script /\ g.pass = "code" /\ g.asked = 0
      /\ g.retdata = retdata
  <2>1. Fresh(call, Len(below) + 1, script, retdata, g)
    BY <1>1, <1>2 DEF Fresh
  <2>2. /\ FrameTypes(g) /\ FrameLaid(g) /\ Pending(g) = {}
        /\ \A temp, tx, exempt : FrameAnswered(g, temp, tx, exempt)
        /\ g.call = call /\ g.script = script /\ g.pass = "code" /\ g.asked = 0
        /\ g.retdata = retdata
    BY <2>1, FreshFrame
  <2> QED BY <2>2
<1>4. PICK n \in Nat : n = Len(below) /\ (below = <<>> <=> n = 0)
  BY StackElements DEF StackInv
<1>5. /\ IsStack(t) /\ Len(t) = n + 1 /\ t[n + 1] = g /\ t # <<>>
      /\ \A i \in 1 .. n : t[i] = below[i]
  <2>1. IsStack(below) /\ t = Pushed(below, g)
    BY <1>1, <1>2 DEF StackInv, Pushed
  <2>2. /\ IsStack(t) /\ Len(t) = Len(below) + 1 /\ t[Len(below) + 1] = g /\ t # <<>>
        /\ \A i \in 1 .. Len(below) : t[i] = below[i]
    BY <2>1, StackPush
  <2> QED BY <1>4, <2>2
<1>6. /\ Exempt' = Exempt /\ txs' = txs /\ temporary' = temporary
      /\ relocation_rules' = relocation_rules /\ status' = "running"
  BY DEF Exempt, vmVars
<1>7. TxInStep'
  <2>1. \/ tx_info_ptr = Ptr(TxInfoSeg(txs), 0)
        \/ tx_info_ptr = Ptr(ContextSeg(txs), deprecated_tx_info_offset)
    BY DEF TxInStep
  <2> QED BY <1>2, <1>5, <1>6, <2>1 DEF TxInStep
<1>8. FramesInStep'
  <2> SUFFICES ASSUME NEW i \in 1 .. n + 1
               PROVE  /\ FrameTypes(t[i]) /\ FrameLaid(t[i])
                      /\ FrameAnswered(t[i], temporary, txs, Exempt)
    BY <1>2, <1>5, <1>6 DEF FramesInStep
  <2>1. CASE i = n + 1
    BY <1>3, <1>5, <2>1
  <2>2. CASE i # n + 1
    <3>1. i \in 1 .. n
      BY <2>2
    <3> QED BY <1>4, <1>5, <3>1 DEF StackInv
  <2> QED BY <2>1, <2>2
<1>9. CallsInStep'
  <2> SUFFICES ASSUME NEW i \in 1 .. (n + 1) - 1 PROVE Calling(t[i], t[i + 1])
    BY <1>2, <1>5 DEF CallsInStep
  <2>1. i \in 1 .. n /\ t[i] = below[i]
    BY <1>5
  <2>2. CASE i = n
    BY <1>3, <1>4, <1>5, <2>1, <2>2
  <2>3. CASE i # n
    <3>1. i \in 1 .. n - 1 /\ i + 1 \in 1 .. n
      BY <2>1, <2>3
    <3> QED BY <1>4, <1>5, <2>1, <3>1 DEF StackInv
  <2> QED BY <2>2, <2>3
<1>10. CodeInStep'
  <2>1. /\ ResultsLeft(g) = Results(script) /\ DeployedLeft(g) = Deployed(script)
        /\ ReadsLeft(g) = Reads(script)
    BY <1>3, IteratorEnds
  <2>2. call_execution_info_ptr' # None
    BY <1>1, <1>4 DEF Ptr, None, ExecutionInfoSeg
  <2> QED BY <1>1, <1>2, <1>3, <1>5, <2>1, <2>2 DEF CodeInStep
<1>11. SegmentsInStep'
  <2>1. Among(below, t)
    BY <1>4, <1>5 DEF Among
  <2>2. Among(t, below)
    <3> SUFFICES ASSUME NEW i \in 1 .. n + 1, NEW j \in Pending(t[i])
                 PROVE  /\ i \in 1 .. n /\ j \in Pending(below[i])
                        /\ Guess(t[i], j) = Guess(below[i], j)
      BY <1>4, <1>5 DEF Among
    <3>1. i # n + 1
      BY <1>3, <1>5
    <3>2. i \in 1 .. n
      BY <3>1
    <3> QED BY <1>5, <3>2
  <2>3. Segments(t, temporary, relocation_rules)
    BY <2>1, <2>2, SegmentsKept DEF StackInv
  <2> QED BY <1>2, <1>6, <2>3 DEF SegmentsInStep
<1>12. RunInv'
  BY <1>7, <1>8, <1>9, <1>10, <1>11 DEF RunInv
<1> QED BY <1>6, <1>12 DEF IInv, NothingIsRefused

LEMMA EnterCallStep ==
    ASSUME IInv, enter_call
    PROVE  IInv'
<1>1. /\ status = "running" /\ stack = <<>> /\ todo # <<>>
      /\ todo' = Tail(todo) /\ UNCHANGED <<status, txs, tx_info_ptr, vmVars>>
      /\ Enter(<<>>, [mode |-> Head(todo), caller_address |-> 0, storage_address |-> 1], <<>>)
  BY DEF enter_call
<1>2. /\ TxInStep /\ StackInv(stack, temporary, relocation_rules, txs, Exempt)
  BY <1>1, RunIsStackInv DEF IInv
<1>3. PICK call : call = [mode |-> Head(todo), caller_address |-> 0, storage_address |-> 1]
  OBVIOUS
<1>4. todo \in Seq(Modes) /\ Head(todo) \in Modes /\ Tail(todo) \in Seq(Modes)
  BY <1>1, <1>2 DEF TxInStep
<1>5. call \in CallSet
  BY <1>3, <1>4 DEF CallSet
<1>6. tx_info_ptr # None
  BY <1>1, <1>2 DEF TxInStep, Ptr, None, TxInfoSeg, ContextSeg, deprecated_tx_info_offset
<1>7. PICK below : below = <<>> /\ StackInv(below, temporary, relocation_rules, txs, Exempt)
  BY <1>1, <1>2
<1>8. Enter(below, call, <<>>)
  BY <1>1, <1>3, <1>7
<1> QED BY <1>1, <1>2, <1>4, <1>5, <1>6, <1>7, <1>8, EnterStep

LEMMA ExecuteCallStep ==
    ASSUME IInv, ExecuteCall
    PROVE  IInv'
<1>1. PICK op \in InnerOps :
        /\ Executing /\ ~AtEnd /\ Found(Top) = op
        /\ Enter(stack, Callee(Top.call, op, ActualAddress(Top)), ActualRetdata(Top, op))
        /\ UNCHANGED <<status, vmVars, txVars>>
  BY DEF ExecuteCall, AtCall
<1>2. /\ stack # <<>> /\ status = "running" /\ TxInStep
      /\ StackInv(stack, temporary, relocation_rules, txs, Exempt)
      /\ Top = stack[Len(stack)] /\ Before(Top, op)
  BY <1>1, ExecutingFacts
<1>3. PICK call, retdata : /\ call = Callee(Top.call, op, ActualAddress(Top))
                           /\ retdata = ActualRetdata(Top, op)
  OBVIOUS
<1>4. retdata = MeantResult(Top, Here(Top))
  BY <1>2, <1>3, ActualsMeant
<1>5. call \in CallSet
  <2>1. PICK c \in CallSet : c = Top.call
    BY <1>2 DEF Before, FrameTypes
  <2>2. PICK a \in Nat : a = ActualAddress(Top)
    <3>1. Here(Top) \in Nat
      BY <1>2, BeforeFacts
    <3>2. Done(Top, {"Deploy"}) \in Nat
      BY <3>1, CountLemma DEF Done, Here
    <3> QED BY <3>2 DEF ActualAddress, DeployedAt
  <2>3. /\ DOMAIN c = {"mode", "caller_address", "storage_address"} /\ c.mode \in Modes
        /\ c.caller_address \in Nat /\ c.storage_address \in Nat
        /\ c.storage_address + 1 \in Nat
    BY DEF CallSet
  <2>4. CASE op = "CallContract"
    BY <1>3, <2>1, <2>3, <2>4 DEF Callee, CallSet
  <2>5. CASE op = "Deploy"
    BY <1>3, <2>1, <2>2, <2>3, <2>5 DEF Callee, CallSet
  <2>6. CASE op # "CallContract" /\ op # "Deploy"
    BY <1>3, <2>1, <2>6 DEF Callee
  <2> QED BY <2>4, <2>5, <2>6
<1>6. tx_info_ptr # None
  BY <1>2 DEF TxInStep, Ptr, None, TxInfoSeg, ContextSeg, deprecated_tx_info_offset
<1>7. \A g : g.retdata = retdata => Calling(stack[Len(stack)], g)
  BY <1>2, <1>4 DEF Before, Calling
<1>8. PICK below : below = stack
  OBVIOUS
<1>9. /\ StackInv(below, temporary, relocation_rules, txs, Exempt)
      /\ \A g : g.retdata = retdata => Calling(below[Len(below)], g)
      /\ Enter(below, call, retdata) /\ UNCHANGED <<status, txs, tx_info_ptr, vmVars>>
      /\ todo' \in Seq(Modes)
  BY <1>1, <1>2, <1>3, <1>7, <1>8 DEF txVars, TxInStep
<1> QED BY <1>2, <1>5, <1>6, <1>9, EnterStep

-----------------------------------------------------------------------------
(* Transactions, and the theorems.                                         *)

\* Between two calls only the segments of the transaction are left.
LEMMA BetweenCalls ==
    ASSUME status' = "running", TxInStep', stack' = <<>>, SegmentsInStep'
    PROVE  IInv'
<1>1. Len(stack') = 0 /\ 1 .. 0 = {} /\ 1 .. 0 - 1 = {}
  OBVIOUS
<1>2. FramesInStep' /\ CallsInStep' /\ CodeInStep'
  BY <1>1 DEF FramesInStep, CallsInStep, CodeInStep
<1> QED BY <1>2 DEF IInv, NothingIsRefused, RunInv

LEMMA StartStep ==
    ASSUME IInv, start_tx \/ start_tx_validate_declare_execution_context
    PROVE  IInv'
<1>1. /\ status = "running" /\ tx_info_ptr = None /\ txs' = txs + 1
      /\ \/ tx_info_ptr' = Ptr(TxInfoSeg(txs + 1), 0)
         \/ tx_info_ptr' = Ptr(ContextSeg(txs + 1), deprecated_tx_info_offset)
      /\ todo' \in {<<"validate", "execute">>, <<"execute">>}
      /\ UNCHANGED <<status, stack, callVars, iterVars, vmVars>>
  BY DEF start_tx, start_tx_validate_declare_execution_context
<1>2. TxInStep /\ SegmentsInStep
  BY <1>1 DEF IInv, RunInv
<1>3. stack = <<>>
  BY <1>1, <1>2 DEF TxInStep, Ptr, None, TxInfoSeg, ContextSeg, deprecated_tx_info_offset
<1>4. todo' \in Seq(Modes)
  <2>1. "validate" \in Modes /\ "execute" \in Modes
    BY DEF Modes
  <2>2. <<"validate", "execute">> \in Seq(Modes) /\ <<"execute">> \in Seq(Modes)
    BY <2>1
  <2> QED BY <1>1, <2>2
<1>5. TxInStep'
  BY <1>1, <1>2, <1>4 DEF TxInStep, vmVars
<1>6. SegmentsInStep'
  BY <1>1, <1>2 DEF SegmentsInStep, vmVars
<1> QED BY <1>1, <1>3, <1>5, <1>6, BetweenCalls

LEMMA EndStep ==
    ASSUME IInv, end_tx
    PROVE  IInv'
<1>1. /\ status = "running" /\ stack = <<>> /\ todo = <<>>
      /\ tx_info_ptr' = None /\ temporary' = <<>> /\ relocation_rules' = <<>>
      /\ UNCHANGED <<status, stack, callVars, iterVars, txs, todo>>
  BY DEF end_tx
<1>2. TxInStep
  BY <1>1 DEF IInv, RunInv
<1>3. TxInStep'
  BY <1>1, <1>2 DEF TxInStep
<1>4. SegmentsInStep'
  BY <1>1 DEF SegmentsInStep, Segments, RulesMeant, Owed, Unmoved, Distinct
<1> QED BY <1>1, <1>3, <1>4, BetweenCalls

LEMMA StutterStep ==
    ASSUME IInv, UNCHANGED vars
    PROVE  IInv'
<1>1. UNCHANGED <<status, stack, callVars, iterVars, vmVars, txVars>>
  BY DEF vars
<1>2. UNCHANGED <<status, stack, call_info, call_execution_info_ptr, result_iter,
                  deployed_contracts_iter, execute_code_read_iter, temporary,
                  relocation_rules, txs, todo, tx_info_ptr>>
  BY <1>1 DEF callVars, iterVars, vmVars, txVars
<1>3. Exempt' = Exempt /\ Top' = Top
  BY <1>2 DEF Exempt, Top
<1>4. NothingIsRefused'
  BY <1>2, <1>3 DEF IInv, NothingIsRefused
<1>5. ASSUME RunInv PROVE RunInv'
  <2>1. TxInStep' /\ CodeInStep' /\ CallsInStep' /\ SegmentsInStep'
    BY <1>2, <1>5 DEF RunInv, TxInStep, CodeInStep, CallsInStep, SegmentsInStep
  <2>2. FramesInStep'
    BY <1>2, <1>3, <1>5 DEF RunInv, FramesInStep
  <2> QED BY <2>1, <2>2 DEF RunInv
<1> QED BY <1>2, <1>4, <1>5 DEF IInv

LEMMA InitInv == Init => IInv
<1> SUFFICES ASSUME Init PROVE IInv
  OBVIOUS
<1>1. /\ status = "running" /\ txs = 0 /\ todo = <<>> /\ stack = <<>>
      /\ tx_info_ptr = None /\ temporary = <<>> /\ relocation_rules = <<>>
  BY DEF Init
<1>2. Len(stack) = 0 /\ 1 .. 0 = {} /\ 1 .. 0 - 1 = {}
  BY <1>1
<1>3. TxInStep
  <2>1. IsStack(stack)
    BY <1>1, <1>2 DEF IsStack
  <2> QED BY <1>1, <2>1 DEF TxInStep
<1>4. FramesInStep /\ CallsInStep /\ CodeInStep
  BY <1>2 DEF FramesInStep, CallsInStep, CodeInStep
<1>5. SegmentsInStep
  BY <1>1 DEF SegmentsInStep, Segments, RulesMeant, Owed, Unmoved, Distinct
<1> QED BY <1>1, <1>3, <1>4, <1>5 DEF IInv, NothingIsRefused, RunInv

LEMMA NextStep == NoDelegateCall /\ IInv /\ [Next]_vars => IInv'
<1> SUFFICES ASSUME NoDelegateCall, IInv, [Next]_vars PROVE IInv'
  OBVIOUS
<1>1. CASE start_tx \/ start_tx_validate_declare_execution_context
  BY <1>1, StartStep
<1>2. CASE enter_call
  BY <1>2, EnterCallStep
<1>3. CASE exit_call
  BY <1>3, ExitStep
<1>4. CASE end_tx
  BY <1>4, EndStep
<1>5. CASE CallSyscall
  BY <1>5, CallStep
<1>6. CASE DeploySyscall
  BY <1>6, DeployStep
<1>7. CASE StorageReadSyscall
  BY <1>7, ReadStep
<1>8. CASE StorageWriteSyscall \/ EmitEventSyscall \/ SilentSyscall
  BY <1>8, SilentSteps
<1>9. CASE GetterSyscall
  BY <1>9, GetterStep
<1>10. CASE ExecuteCall
  BY <1>10, ExecuteCallStep
<1>11. CASE ExecuteOther
  BY <1>11, OtherStep
<1>12. CASE ExecuteSyscall
  BY <1>12, SyscallStep
<1>13. CASE Return
  BY <1>13, ReturnStep
<1>14. CASE Stopped \/ UNCHANGED vars
  <2>1. UNCHANGED vars
    BY <1>14 DEF Stopped
  <2> QED BY <2>1, StutterStep
<1> QED BY <1>1, <1>2, <1>3, <1>4, <1>5, <1>6, <1>7, <1>8, <1>9, <1>10, <1>11, <1>12,
           <1>13, <1>14 DEF Next

\* The invariant holds in every behaviour of entry points without delegate_call.
THEOREM Invariant == NoDelegateCall /\ Spec => []IInv
<1> SUFFICES ASSUME NoDelegateCall PROVE Spec => []IInv
  OBVIOUS
<1>1. Init => IInv
  BY InitInv
<1>2. IInv /\ [Next]_vars => IInv'
  BY NextStep
<1> QED BY <1>1, <1>2, PTL DEF Spec

\* Every response that the handlers of execution/deprecated_syscall_handler.rs
\* write in the first pass is the one that the OS asserts in the second, no
\* iterator is empty too early or left over at exit_call, and no cell that the
\* code reads is missing: the run is never lost, but where the account of a
\* declaration asks for the transaction's info or signature.
THEOREM Answers == NoDelegateCall /\ Spec => []NothingIsRefused
<1>1. IInv => NothingIsRefused
  BY DEF IInv
<1> QED BY <1>1, Invariant, PTL

\* While the code of an entry point runs, the iterators of the execution helper
\* hold one recorded answer for each syscall it still has to ask for.
THEOREM Recording == NoDelegateCall /\ Spec => []AnswersInStep
<1>1. IInv => AnswersInStep
  <2> SUFFICES ASSUME IInv, status \in {"running", "unknown_memory"}, stack # <<>>,
                      Top.pass = "code"
               PROVE  /\ Len(result_iter) = Left(Top, InnerOps)
                      /\ Len(deployed_contracts_iter) = Left(Top, {"Deploy"})
                      /\ Len(execute_code_read_iter) = Left(Top, {"StorageRead"})
    BY DEF AnswersInStep, Left
  <2>1. RunInv
    BY DEF IInv
  <2>2. /\ Len(stack) \in Nat /\ Len(stack) > 0 /\ Top = stack[Len(stack)]
        /\ FrameTypes(Top)
    BY <2>1, TopFacts
  <2>3. /\ result_iter = ResultsLeft(Top)
        /\ deployed_contracts_iter = DeployedLeft(Top)
        /\ execute_code_read_iter = ReadsLeft(Top)
    BY <2>1, <2>2 DEF RunInv, CodeInStep
  <2> QED BY <2>2, <2>3, IteratorEnds
<1> QED BY <1>1, Invariant, PTL

\* Between two top-level calls each temporary segment of the transaction has a
\* relocation rule, to a segment with its contents (add_relocation_rule,
\* hints/execution.rs).
THEOREM Relocation == NoDelegateCall /\ Spec => []TemporarySegmentsMoved
<1>1. IInv => TemporarySegmentsMoved
  <2> SUFFICES ASSUME IInv, status = "running", stack = <<>>
               PROVE  /\ DOMAIN relocation_rules = DOMAIN temporary
                      /\ \A i \in DOMAIN temporary : relocation_rules[i] = temporary[i]
    BY DEF TemporarySegmentsMoved
  <2>1. Segments(stack, temporary, relocation_rules)
    BY DEF IInv, RunInv, SegmentsInStep
  <2>2. \A t : ~Owed(stack, t)
    <3>1. 1 .. Len(stack) = {}
      OBVIOUS
    <3> QED BY <3>1 DEF Owed
  <2>3. DOMAIN temporary \subseteq DOMAIN relocation_rules
    BY <2>1, <2>2 DEF Segments
  <2> QED BY <2>1, <2>3 DEF Segments, RulesMeant
<1> QED BY <1>1, Invariant, PTL

=============================================================================
