---------------------------- MODULE ReplayProofs ----------------------------
(***************************************************************************)
(* The replay never trips an assertion of the execution helper, for every  *)
(* recorded block.                                                         *)
(***************************************************************************)
EXTENDS Replay, SequenceTheorems, TLAPS

-----------------------------------------------------------------------------
\* Lists of calls and sequences.

\* What is left of a list of calls after its first is again such a list.
LEMMA CallListsClosed ==
    /\ CallLists \subseteq Seq(CallInfo)
    /\ <<>> \in CallLists
    /\ \A s \in CallLists : s # <<>> => Head(s) \in CallInfo /\ Tail(s) \in CallLists
    /\ \A c \in CallInfo : c.inner_calls \in CallLists
    /\ \A tx \in Transactions : TopLevelCalls(tx) \in CallLists
<1>1. WholeLists \subseteq Seq(CallInfo)
  BY CallInfoAssumption, TopLevelCallsAssumption DEF WholeLists
<1>2. ASSUME NEW s \in WholeLists, NEW l \in Suffixes(s) PROVE l \in CallLists
  BY DEF CallLists
<1>3. ASSUME NEW l \in CallLists
      PROVE  l = <<>> \/ \E s \in WholeLists : l \in Suffixes(s)
  BY DEF CallLists
<1>4. ASSUME NEW s \in WholeLists, NEW l \in Suffixes(s)
      PROVE  /\ l \in Seq(CallInfo)
             /\ l # <<>> => Head(l) \in CallInfo /\ Tail(l) \in Suffixes(s)
  <2>1. s \in Seq(CallInfo)
    BY <1>1
  <2>2. PICK i \in 1 .. (Len(s) + 1) : l = SubSeq(s, i, Len(s))
    BY DEF Suffixes
  <2>3. CASE i = Len(s) + 1
    <3>1. l = <<>>
      BY <2>1, <2>2, <2>3, SubSeqEmpty, LenProperties
    <3> QED
      BY <3>1, EmptySeq
  <2>4. CASE i # Len(s) + 1
    <3>1. i \in 1 .. Len(s) /\ Len(s) \in i .. Len(s)
      BY <2>1, <2>4, LenProperties
    <3>2. l \in Seq(CallInfo)
      <4>1. \A j \in i .. Len(s) : s[j] \in CallInfo
        BY <2>1, <3>1, ElementOfSeq, LenProperties
      <4> QED
        BY <2>2, <3>1, <4>1, SubSeqProperties
    <3>3. Head(l) = s[i] /\ Tail(l) = SubSeq(s, i + 1, Len(s))
      BY <2>1, <2>2, <3>1, HeadTailOfSubSeq
    <3>4. i + 1 \in 1 .. (Len(s) + 1)
      BY <2>1, <3>1, LenProperties
    <3> QED
      BY <2>1, <3>1, <3>2, <3>3, <3>4, ElementOfSeq DEF Suffixes
  <2> QED
    BY <2>3, <2>4
<1>5. ASSUME NEW s \in WholeLists PROVE s \in Suffixes(s)
  <2>1. s \in Seq(CallInfo) /\ s = SubSeq(s, 1, Len(s))
    BY <1>1, SubSeqFull
  <2>2. 1 \in 1 .. (Len(s) + 1)
    BY <2>1, LenProperties
  <2> QED
    BY <2>1, <2>2 DEF Suffixes
<1>6. <<>> \in CallLists /\ <<>> \in Seq(CallInfo)
  BY EmptySeq DEF CallLists
<1>7. \A s \in CallLists : s # <<>> => Head(s) \in CallInfo /\ Tail(s) \in CallLists
  BY <1>2, <1>3, <1>4
<1>8. CallLists \subseteq Seq(CallInfo)
  BY <1>3, <1>4, <1>6
<1>9. ASSUME NEW s \in WholeLists PROVE s \in CallLists
  BY <1>2, <1>5
<1>10. /\ \A c \in CallInfo : c.inner_calls \in WholeLists
       /\ \A tx \in Transactions : TopLevelCalls(tx) \in WholeLists
  BY DEF WholeLists
<1> QED
  BY <1>6, <1>7, <1>8, <1>9, <1>10

\* Taking the first element off a concatenation.
LEMMA ConsHeadTail ==
    ASSUME NEW S, NEW e \in S, NEW s \in Seq(S)
    PROVE  /\ <<e>> \o s \in Seq(S)
           /\ <<e>> \o s # <<>>
           /\ Head(<<e>> \o s) = e
           /\ Tail(<<e>> \o s) = s
<1>1. <<e>> \in Seq(S) /\ Len(<<e>>) = 1 /\ <<e>>[1] = e
  OBVIOUS
<1>2. /\ <<e>> \o s \in Seq(S)
      /\ Len(<<e>> \o s) = 1 + Len(s)
      /\ \A i \in 1 .. 1 + Len(s) : (<<e>> \o s)[i] = IF i <= 1 THEN e ELSE s[i - 1]
  BY <1>1, ConcatProperties
<1> DEFINE c == <<e>> \o s
<1>3. c \in Seq(S) /\ Len(c) = 1 + Len(s) /\ Len(s) \in Nat
  BY <1>2, LenProperties
<1>4. c # <<>>
  BY <1>3, EmptySeq
<1>5. Head(c) = e
  BY <1>2, <1>3, <1>4
<1>6. /\ Tail(c) \in Seq(S) /\ Len(Tail(c)) = Len(s)
      /\ \A i \in 1 .. Len(s) : Tail(c)[i] = c[i + 1]
  BY <1>3, <1>4, HeadTailProperties
<1>7. \A i \in 1 .. Len(s) : c[i + 1] = s[i]
  BY <1>2, <1>3
<1>8. Tail(c) = s
  BY <1>6, <1>7, SeqEqual
<1> QED
  BY <1>3, <1>4, <1>5, <1>8

\* The pre-order list of a non-empty list of calls starts with its first call,
\* goes on with that call's inner calls, and ends with the other calls.
LEMMA PreorderStep ==
    ASSUME NEW s \in CallLists, s # <<>>, NEW rest \in Seq(CallInfo)
    PROVE  /\ preorder[s] \o rest # <<>>
           /\ Head(preorder[s] \o rest) = Head(s)
           /\ Tail(preorder[s] \o rest) =
                 preorder[Head(s).inner_calls] \o (preorder[Tail(s)] \o rest)
<1> DEFINE inner == preorder[Head(s).inner_calls]
           others == preorder[Tail(s)]
<1>1. /\ Head(s) \in CallInfo
      /\ Head(s).inner_calls \in CallLists
      /\ Tail(s) \in CallLists
  BY CallListsClosed
<1>2. inner \in Seq(CallInfo) /\ others \in Seq(CallInfo)
  BY <1>1, TopologyUnfolds
<1>3. preorder[s] = <<Head(s)>> \o inner \o others
  BY TopologyUnfolds
<1>4. <<Head(s)>> \in Seq(CallInfo)
  BY <1>1
<1> HIDE DEF inner, others
<1>5. preorder[s] \o rest = <<Head(s)>> \o (inner \o (others \o rest))
  <2>1. <<Head(s)>> \o inner \in Seq(CallInfo) /\ others \o rest \in Seq(CallInfo)
    BY <1>2, <1>4, ConcatProperties
  <2>2. preorder[s] \o rest = (<<Head(s)>> \o inner) \o (others \o rest)
    BY <1>2, <1>3, <2>1, ConcatAssociative
  <2> QED
    BY <1>2, <1>4, <2>1, <2>2, ConcatAssociative
<1> DEFINE after == inner \o (others \o rest)
<1>6. after \in Seq(CallInfo)
  BY <1>2, ConcatProperties
<1> HIDE DEF after
<1>7. /\ <<Head(s)>> \o after # <<>>
      /\ Head(<<Head(s)>> \o after) = Head(s)
      /\ Tail(<<Head(s)>> \o after) = after
  BY <1>1, <1>6, ConsHeadTail
<1> QED
  BY <1>5, <1>7 DEF inner, others, after

\* Unpacked results and deployed addresses, one inner call at a time.
LEMMA ResultsStep ==
    ASSUME NEW s \in CallLists
    PROVE  /\ Results(s) \in Seq(CallResults)
           /\ s = <<>> => Results(s) = <<>>
           /\ s # <<>> => /\ Results(s) # <<>>
                          /\ Head(Results(s)) = CallResult(Head(s))
                          /\ Tail(Results(s)) = Results(Tail(s))
<1>1. s \in Seq(CallInfo)
  BY CallListsClosed
<1>2. \A c \in CallInfo : CallResult(c) \in CallResults
  BY CallInfoAssumption DEF CallResult, CallResults
<1>3. /\ Results(s) \in Seq(CallResults) /\ Len(Results(s)) = Len(s)
      /\ \A i \in 1 .. Len(s) : Results(s)[i] = CallResult(s[i])
  BY <1>1, <1>2 DEF Results
<1>4. s = <<>> => Results(s) = <<>>
  BY <1>3, EmptySeq
<1>5. ASSUME s # <<>>
      PROVE  /\ Results(s) # <<>>
             /\ Head(Results(s)) = CallResult(Head(s))
             /\ Tail(Results(s)) = Results(Tail(s))
  <2>1. Tail(s) \in CallLists
    BY <1>5, CallListsClosed
  <2>2. Tail(s) \in Seq(CallInfo) /\ Len(Tail(s)) = Len(s) - 1 /\ Len(s) \in Nat \ {0}
    BY <1>1, <1>5, HeadTailProperties, EmptySeq
  <2>3. /\ Results(Tail(s)) \in Seq(CallResults)
        /\ Len(Results(Tail(s))) = Len(s) - 1
        /\ \A i \in 1 .. Len(s) - 1 : Results(Tail(s))[i] = CallResult(Tail(s)[i])
    BY <1>2, <2>2 DEF Results
  <2>4. Results(s) # <<>>
    BY <1>3, <2>2, EmptySeq
  <2>5. Head(Results(s)) = CallResult(Head(s))
    BY <1>1, <1>3, <1>5, <2>2, <2>4
  <2>6. /\ Tail(Results(s)) \in Seq(CallResults)
        /\ Len(Tail(Results(s))) = Len(s) - 1
        /\ \A i \in 1 .. Len(s) - 1 : Tail(Results(s))[i] = Results(s)[i + 1]
    BY <1>3, <2>4, HeadTailProperties
  <2>7. \A i \in 1 .. Len(s) - 1 : Tail(s)[i] = s[i + 1]
    BY <1>1, <1>5, <2>2, HeadTailProperties
  <2>8. \A i \in 1 .. Len(s) - 1 : Tail(Results(s))[i] = Results(Tail(s))[i]
    <3> SUFFICES ASSUME NEW i \in 1 .. Len(s) - 1
                 PROVE  Tail(Results(s))[i] = Results(Tail(s))[i]
      OBVIOUS
    <3>1. i + 1 \in 1 .. Len(s)
      BY <2>2
    <3> QED
      BY <1>3, <2>3, <2>6, <2>7, <3>1
  <2>9. Tail(Results(s)) = Results(Tail(s))
    BY <2>3, <2>6, <2>8, SeqEqual
  <2> QED
    BY <2>4, <2>5, <2>9
<1> QED
  BY <1>3, <1>4, <1>5

\* The deployed addresses of a list of calls: those of its first call, then those of the rest.
LEMMA DeployedStep ==
    ASSUME NEW s \in CallLists
    PROVE  /\ ConstructorAddresses(s) \in Seq(Address)
           /\ s = <<>> => ConstructorAddresses(s) = <<>>
           /\ s # <<>> /\ ~IsConstructor(Head(s)) =>
                 ConstructorAddresses(s) = ConstructorAddresses(Tail(s))
           /\ s # <<>> /\ IsConstructor(Head(s)) =>
                 /\ ConstructorAddresses(s) # <<>>
                 /\ Head(ConstructorAddresses(s)) = Head(s).storage_address
                 /\ Tail(ConstructorAddresses(s)) = ConstructorAddresses(Tail(s))
<1>1. ConstructorAddresses(s) \in Seq(Address) /\ (s = <<>> => ConstructorAddresses(s) = <<>>)
  BY DeployedUnfolds
<1>2. ASSUME s # <<>> PROVE /\ ConstructorAddresses(Tail(s)) \in Seq(Address)
                            /\ Head(s).storage_address \in Address
  BY <1>2, CallListsClosed, DeployedUnfolds, CallInfoAssumption
<1>3. ASSUME s # <<>>, ~IsConstructor(Head(s))
      PROVE  ConstructorAddresses(s) = ConstructorAddresses(Tail(s))
  <2>1. ConstructorAddresses(s) = <<>> \o ConstructorAddresses(Tail(s))
    BY <1>3, DeployedUnfolds
  <2> QED
    BY <1>2, <1>3, <2>1, ConcatEmptySeq
<1>4. ASSUME s # <<>>, IsConstructor(Head(s))
      PROVE  /\ ConstructorAddresses(s) # <<>>
             /\ Head(ConstructorAddresses(s)) = Head(s).storage_address
             /\ Tail(ConstructorAddresses(s)) = ConstructorAddresses(Tail(s))
  <2>1. ConstructorAddresses(s) = <<Head(s).storage_address>> \o ConstructorAddresses(Tail(s))
    BY <1>4, DeployedUnfolds
  <2> QED
    BY <1>2, <1>4, <2>1, ConsHeadTail
<1> QED
  BY <1>1, <1>3, <1>4

\* The OS and the helper order the top-level calls of a transaction alike.
LEMMA OsCallsAreTopLevelCalls ==
    ASSUME NEW tx \in Transactions
    PROVE  OsCalls(tx) = TopLevelCalls(tx)
<1>1. tx.tx_type = "DEPLOY_ACCOUNT" <=>
         /\ tx.execute_call_info # None
         /\ tx.execute_call_info.entry_point_type = "Constructor"
  BY RecordedTransactions
<1>2. (IF tx.is_reverted THEN None ELSE tx.execute_call_info) = tx.execute_call_info
  BY RecordedTransactions, TransactionAssumption
<1> QED
  BY <1>1, <1>2 DEF OsCalls, TopLevelCalls

-----------------------------------------------------------------------------
(***************************************************************************)
(* The inductive invariant.  t[i + 1] is what the helper's call_iter must  *)
(* still hold for the i outermost frames of the OS's recursion.            *)
(***************************************************************************)
IterStack(t) ==
    /\ t \in [1 .. (Len(os_frames) + 1) -> Seq(CallInfo)]
    /\ t[1] = <<>>
    /\ \A i \in 1 .. Len(os_frames) : t[i + 1] = preorder[os_frames[i]] \o t[i]

InnerRest == IF os_call = None THEN <<>> ELSE preorder[os_call.inner_calls]

CallIterInStep ==
    \E t : IterStack(t) /\ call_iter = InnerRest \o t[Len(os_frames) + 1]

HelperInStep ==
    /\ os_frames \in Seq(CallLists)
    /\ tx_execution_info_iter = os_txs
    /\ call_info = os_call
    /\ call_execution_info_ptr = None <=> os_call = None
    /\ tx_execution_info = None <=> os_frames = <<>>
    /\ tx_info_ptr = None <=> os_frames = <<>>
    /\ os_frames = <<>> => os_call = None

CodeInStep ==
    /\ os_pending \in CallLists
    /\ os_call = None => os_pending = <<>> /\ os_reads = <<>>
    /\ result_iter = Results(os_pending)
    /\ deployed_contracts_iter = ConstructorAddresses(os_pending)
    /\ execute_code_read_iter = os_reads
    /\ os_call # None /\ os_call.deprecated =>
          \A i \in 1 .. Len(os_pending) : ~os_pending[i].failed

IInv ==
    /\ TypeOK
    /\ NeverAborts
    /\ HelperInStep
    /\ CodeInStep
    /\ CallIterInStep
    /\ AnswersMatchQuestions

\* The helper and the OS are in step before the first transaction.
LEMMA InitIInv == Init => IInv
<1> SUFFICES ASSUME Init PROVE IInv
  OBVIOUS
<1> USE DEF Init, new
<1>1. os_txs \in Seq(Transactions)
  BY BlocksAssumption
<1>2. TypeOK
  BY <1>1 DEF TypeOK
<1>3. CodeInStep
  BY CallListsClosed, ResultsStep, DeployedStep DEF CodeInStep
<1>4. CallIterInStep
  <2> DEFINE t == [i \in 1 .. 1 |-> <<>>]
  <2>1. t \in [1 .. 1 -> Seq(CallInfo)] /\ t[1] = <<>>
    BY EmptySeq
  <2>2. IterStack(t)
    BY <2>1 DEF IterStack
  <2>3. call_iter = InnerRest \o t[Len(os_frames) + 1]
    BY <2>1 DEF InnerRest
  <2> QED
    BY <2>2, <2>3 DEF CallIterInStep
<1>5. HelperInStep
  BY NoneAssumption DEF HelperInStep
<1> QED
  BY <1>2, <1>3, <1>4, <1>5 DEF IInv, NeverAborts, AnswersMatchQuestions, NoResponse

\* A step that leaves call_iter, the frames and the running call alone keeps
\* the iterator in step.
LEMMA CallIterKept ==
    ASSUME CallIterInStep, UNCHANGED <<call_iter, os_frames, os_call>>
    PROVE  CallIterInStep'
BY DEF CallIterInStep, IterStack, InnerRest

\* start_tx gives the helper the calls of the transaction the OS starts.
LEMMA StartTxStep == ASSUME IInv, StartTx PROVE IInv'
<1> USE DEF IInv
<1>1. /\ os_txs \in Seq(Transactions) /\ os_txs # <<>>
      /\ Tail(os_txs) \in Seq(Transactions) /\ Head(os_txs) \in Transactions
  BY HeadTailProperties DEF StartTx, TypeOK
<1>tx. PICK tx \in Transactions : tx = Head(os_txs)
  BY <1>1
<1>2. PICK ptr \in Ptr : start_tx(ptr)
  BY DEF StartTx
<1>3. tx_info_ptr = None /\ tx_execution_info = None /\ tx_execution_info_iter # <<>>
      /\ tx_execution_info_iter = os_txs /\ os_frames = <<>> /\ os_call = None
  BY <1>1 DEF StartTx, OsIdle, HelperInStep
<1>4. /\ tx_info_ptr' = ptr
      /\ tx_execution_info' = tx
      /\ tx_execution_info_iter' = Tail(os_txs)
      /\ call_iter' = gen_call_iterator(tx)
      /\ UNCHANGED <<call_info, call_execution_info_ptr, result_iter,
                     deployed_contracts_iter, execute_code_read_iter, status>>
  BY <1>tx, <1>2, <1>3 DEF start_tx, codeIters
<1>5. /\ os_txs' = Tail(os_txs) /\ os_frames' = << TopLevelCalls(tx) >>
      /\ UNCHANGED <<os_call, os_pending, os_reads, response>>
  BY <1>tx, OsCallsAreTopLevelCalls DEF StartTx
<1>6. /\ TopLevelCalls(tx) \in CallLists /\ TopLevelCalls(tx) \in Seq(CallInfo)
      /\ call_iter' = preorder[TopLevelCalls(tx)]
      /\ preorder[TopLevelCalls(tx)] \in Seq(CallInfo)
  BY <1>4, CallListsClosed, TopologyUnfolds, TopLevelCallsAssumption
     DEF gen_call_iterator, gen_call_topology
<1>L. PICK L \in CallLists : L = TopLevelCalls(tx)
  BY <1>6
<1>7. /\ os_frames' \in Seq(CallLists) /\ os_frames' \in Seq(Seq(CallInfo))
      /\ os_frames' # <<>> /\ Len(os_frames') = 1 /\ os_frames'[1] = L
  BY <1>5, <1>6, <1>L
<1>8. TypeOK'
  BY <1>1, <1>4, <1>5, <1>6, <1>7 DEF TypeOK
<1>9. HelperInStep'
  BY <1>1, <1>3, <1>4, <1>5, <1>7, NoneAssumption DEF HelperInStep
<1>10. CodeInStep'
  BY <1>3, <1>4, <1>5 DEF CodeInStep
<1>11. CallIterInStep'
  <2>1. preorder[L] \in Seq(CallInfo)
    BY <1>6, <1>L
  <2>2. PICK t : /\ t \in [1 .. 2 -> Seq(CallInfo)]
                 /\ t[1] = <<>> /\ t[2] = preorder[L]
    <3> DEFINE f == [i \in 1 .. 2 |-> IF i = 1 THEN <<>> ELSE preorder[L]]
    <3> f \in [1 .. 2 -> Seq(CallInfo)] /\ f[1] = <<>> /\ f[2] = preorder[L]
      BY <2>1
    <3> QED
      OBVIOUS
  <2>3. preorder[L] = preorder[L] \o <<>> /\ preorder[L] = <<>> \o preorder[L]
    BY <2>1, ConcatEmptySeq
  <2>4. \A i \in 1 .. 1 : t[i + 1] = preorder[os_frames'[i]] \o t[i]
    BY <1>7, <2>2, <2>3
  <2>5. IterStack(t)'
    BY <1>7, <2>2, <2>4 DEF IterStack
  <2>6. call_iter' = InnerRest' \o t[Len(os_frames') + 1]
    BY <1>3, <1>5, <1>6, <1>7, <1>L, <2>2, <2>3 DEF InnerRest
  <2> QED
    BY <2>5, <2>6 DEF CallIterInStep
<1> QED
  BY <1>4, <1>5, <1>8, <1>9, <1>10, <1>11 DEF NeverAborts, AnswersMatchQuestions

\* skip_tx drops a transaction without calls on both sides.
LEMMA SkipTxStep == ASSUME IInv, SkipTx PROVE IInv'
<1> USE DEF IInv
<1>1. /\ os_txs \in Seq(Transactions) /\ os_txs # <<>>
      /\ Tail(os_txs) \in Seq(Transactions) /\ Head(os_txs) \in Transactions
  BY HeadTailProperties DEF SkipTx, TypeOK
<1>3. tx_info_ptr = None /\ tx_execution_info = None
      /\ tx_execution_info_iter = os_txs /\ os_frames = <<>> /\ os_call = None
  BY DEF SkipTx, OsIdle, HelperInStep
<1>4. gen_call_iterator(Head(os_txs)) = <<>>
  <2>1. TopLevelCalls(Head(os_txs)) = <<>>
    BY <1>1, RecordedTransactions, OsCallsAreTopLevelCalls DEF SkipTx
  <2> QED
    BY <2>1, CallListsClosed, TopologyUnfolds DEF gen_call_iterator, gen_call_topology
<1>5. /\ tx_execution_info_iter' = Tail(os_txs)
      /\ call_iter' = <<>>
      /\ UNCHANGED <<tx_execution_info, tx_info_ptr, call_info,
                     call_execution_info_ptr, result_iter,
                     deployed_contracts_iter, execute_code_read_iter, status>>
      /\ os_txs' = Tail(os_txs)
      /\ UNCHANGED <<os_frames, os_call, os_pending, os_reads, response>>
  BY <1>1, <1>3, <1>4 DEF SkipTx, skip_tx, codeIters
<1>6. TypeOK'
  BY <1>1, <1>5 DEF TypeOK
<1>7. HelperInStep'
  BY <1>5 DEF HelperInStep
<1>8. CodeInStep'
  BY <1>5 DEF CodeInStep
<1>9. call_iter = <<>>
  <2>1. PICK t : IterStack(t) /\ call_iter = InnerRest \o t[Len(os_frames) + 1]
    BY DEF CallIterInStep
  <2> QED
    BY <1>3, <2>1 DEF IterStack, InnerRest
<1>10. CallIterInStep'
  BY <1>5, <1>9, CallIterKept
<1> QED
  BY <1>5, <1>6, <1>7, <1>8, <1>10 DEF NeverAborts, AnswersMatchQuestions

\* When a call is taken off the innermost frame, only the innermost entry of
\* the stack of iterators changes.
LEMMA TakeFromTop ==
    ASSUME os_frames \in Seq(CallLists), os_frames # <<>>,
           NEW L \in CallLists,
           os_frames' = [os_frames EXCEPT ![Len(os_frames)] = L],
           NEW t, IterStack(t)
    PROVE  /\ os_frames' \in Seq(CallLists) /\ Len(os_frames') = Len(os_frames)
           /\ os_frames' # <<>> /\ Len(os_frames) \in Nat \ {0}
           /\ t[Len(os_frames)] \in Seq(CallInfo)
           /\ t[Len(os_frames) + 1] = preorder[os_frames[Len(os_frames)]] \o t[Len(os_frames)]
           /\ \E u : /\ IterStack(u)'
                     /\ u[Len(os_frames) + 1] = preorder[L] \o t[Len(os_frames)]
<1>n. PICK n \in Nat \ {0} : n = Len(os_frames)
  BY EmptySeq
<1>1. /\ os_frames' \in Seq(CallLists) /\ Len(os_frames') = n
      /\ \A i \in 1 .. n : os_frames'[i] = IF i = n THEN L ELSE os_frames[i]
  BY <1>n, ExceptSeq
<1>2. os_frames' # <<>>
  BY <1>1, EmptySeq
<1>3. /\ t \in [1 .. (n + 1) -> Seq(CallInfo)] /\ t[1] = <<>>
      /\ \A i \in 1 .. n : t[i + 1] = preorder[os_frames[i]] \o t[i]
  BY <1>n DEF IterStack
<1>4. t[n] \in Seq(CallInfo) /\ t[n + 1] = preorder[os_frames[n]] \o t[n]
  <2>1. n \in 1 .. n /\ n \in 1 .. (n + 1)
    BY <1>n
  <2> QED
    BY <1>3, <2>1
<1>5. preorder[L] \o t[n] \in Seq(CallInfo)
  BY <1>4, TopologyUnfolds, ConcatProperties
<1>6. PICK p \in Seq(CallInfo) : p = preorder[L] \o t[n]
  BY <1>5
<1>7. PICK u : u = [t EXCEPT ![n + 1] = p]
  OBVIOUS
<1>8. /\ u \in [1 .. (n + 1) -> Seq(CallInfo)]
      /\ \A i \in 1 .. n : u[i] = t[i]
      /\ u[n + 1] = p
  BY <1>3, <1>7
<1>9. \A i \in 1 .. n : u[i + 1] = preorder[os_frames'[i]] \o u[i]
  <2> SUFFICES ASSUME NEW i \in 1 .. n PROVE u[i + 1] = preorder[os_frames'[i]] \o u[i]
    OBVIOUS
  <2>1. CASE i = n
    BY <1>1, <1>6, <1>8, <2>1
  <2>2. CASE i # n
    <3>1. i + 1 \in 1 .. n
      BY <2>2
    <3> QED
      BY <1>1, <1>3, <1>8, <2>2, <3>1
  <2> QED
    BY <2>1, <2>2
<1>10. IterStack(u)'
  <2>1. 1 \in 1 .. n
    BY <1>n
  <2>2. u[1] = <<>>
    BY <1>3, <1>8, <2>1
  <2> QED
    BY <1>1, <1>8, <1>9, <2>2 DEF IterStack
<1> QED
  BY <1>n, <1>1, <1>2, <1>4, <1>6, <1>8, <1>10

\* Facts about the innermost frame that every step between calls uses.
LEMMA TopFrameFacts ==
    ASSUME IInv, OsBetweenCalls
    PROVE  /\ os_call = None /\ os_frames # <<>> /\ os_frames \in Seq(CallLists)
           /\ Len(os_frames) \in Nat \ {0}
           /\ TopFrame \in CallLists
           /\ call_info = None /\ call_execution_info_ptr = None
           /\ IteratorsExhausted
           /\ os_pending = <<>> /\ os_reads = <<>>
<1> USE DEF IInv, OsBetweenCalls
<1>1. os_call = None /\ os_frames # <<>> /\ os_frames \in Seq(CallLists)
  BY DEF HelperInStep
<1>2. Len(os_frames) \in Nat \ {0}
  BY <1>1, EmptySeq
<1>3. TopFrame \in CallLists
  BY <1>1, <1>2, ElementOfSeq DEF TopFrame
<1>4. call_info = None /\ call_execution_info_ptr = None
  BY <1>1 DEF HelperInStep
<1>5. os_pending = <<>> /\ os_reads = <<>>
  BY <1>1 DEF CodeInStep
<1>6. IteratorsExhausted
  BY <1>5, CallListsClosed, ResultsStep, DeployedStep DEF CodeInStep, IteratorsExhausted
<1> QED
  BY <1>1, <1>2, <1>3, <1>4, <1>5, <1>6

\* enter_call takes the very call the OS enters.
LEMMA EnterCallStep ==
    ASSUME DeprecatedCallsSucceed, IInv, EnterCall PROVE IInv'
<1> USE DEF IInv
<1>0. OsBetweenCalls
  BY DEF EnterCall
<1>1. /\ os_call = None /\ os_frames # <<>> /\ os_frames \in Seq(CallLists)
      /\ Len(os_frames) \in Nat \ {0}
      /\ TopFrame \in CallLists /\ TopFrame # <<>>
      /\ call_info = None /\ call_execution_info_ptr = None
      /\ IteratorsExhausted
  BY <1>0, TopFrameFacts DEF EnterCall
<1>2. PICK top \in CallLists : top = TopFrame
  BY <1>1
<1>3. PICK c \in CallInfo : c = Head(top)
  BY <1>1, <1>2, CallListsClosed
<1>4. Tail(top) \in CallLists /\ c.inner_calls \in CallLists
  BY <1>1, <1>2, CallListsClosed
<1>5. PICK t : IterStack(t) /\ call_iter = InnerRest \o t[Len(os_frames) + 1]
  BY DEF CallIterInStep
<1>6. os_frames' = [os_frames EXCEPT ![Len(os_frames)] = Tail(top)]
  BY <1>2 DEF EnterCall, PopCall, TopFrame
<1>7. /\ os_frames' \in Seq(CallLists) /\ Len(os_frames') = Len(os_frames)
      /\ os_frames' # <<>>
      /\ t[Len(os_frames)] \in Seq(CallInfo)
      /\ t[Len(os_frames) + 1] = preorder[top] \o t[Len(os_frames)]
      /\ \E u : /\ IterStack(u)'
                /\ u[Len(os_frames) + 1] = preorder[Tail(top)] \o t[Len(os_frames)]
  BY <1>1, <1>2, <1>4, <1>5, <1>6, TakeFromTop DEF TopFrame
<1>8. PICK r \in Seq(CallInfo) : r = t[Len(os_frames)]
  BY <1>7
<1>9. preorder[top] \o r \in Seq(CallInfo) /\ preorder[Tail(top)] \o r \in Seq(CallInfo)
      /\ preorder[c.inner_calls] \in Seq(CallInfo)
  BY <1>4, TopologyUnfolds, ConcatProperties
<1>10. call_iter = preorder[top] \o r
  BY <1>1, <1>5, <1>7, <1>8, <1>9, ConcatEmptySeq DEF InnerRest
<1>11. /\ call_iter # <<>> /\ Head(call_iter) = c
       /\ Tail(call_iter) = preorder[c.inner_calls] \o (preorder[Tail(top)] \o r)
  BY <1>1, <1>2, <1>3, <1>10, PreorderStep
<1>12. PICK ptr \in Ptr : enter_call(ptr)
  BY DEF EnterCall
<1>13. /\ call_execution_info_ptr' = ptr
       /\ call_iter' = Tail(call_iter)
       /\ deployed_contracts_iter' = ConstructorAddresses(c.inner_calls)
       /\ result_iter' = Results(c.inner_calls)
       /\ execute_code_read_iter' = c.storage_read_values
       /\ call_info' = c
       /\ UNCHANGED <<tx_execution_info_iter, tx_execution_info, tx_info_ptr, status>>
  BY <1>1, <1>11, <1>12
     DEF enter_call, txVars, DeployedContracts, InnerResults, StorageReadValues
<1>14. /\ os_call' = c /\ os_pending' = c.inner_calls
       /\ os_reads' = c.storage_read_values /\ response' = NoResponse
       /\ os_txs' = os_txs
  BY <1>2, <1>3 DEF EnterCall
<1>15. TypeOK'
  <2>1. os_frames' \in Seq(Seq(CallInfo))
    BY <1>7, CallListsClosed, SeqMonotonic
  <2>2. call_iter' \in Seq(CallInfo)
    BY <1>9, <1>11, <1>13, ConcatProperties
  <2>3. /\ Results(c.inner_calls) \in Seq(CallResults)
        /\ ConstructorAddresses(c.inner_calls) \in Seq(Address)
    BY <1>4, ResultsStep, DeployedStep
  <2>4. c.storage_read_values \in Seq(Value) /\ c.inner_calls \in Seq(CallInfo)
    BY CallInfoAssumption
  <2> QED
    BY <1>13, <1>14, <2>1, <2>2, <2>3, <2>4 DEF TypeOK
<1>16. HelperInStep'
  BY <1>1, <1>7, <1>13, <1>14, NoneAssumption DEF HelperInStep
<1>17. CodeInStep'
  <2>1. c.deprecated => \A i \in 1 .. Len(c.inner_calls) : ~c.inner_calls[i].failed
    <3>1. DOMAIN c.inner_calls = 1 .. Len(c.inner_calls)
      BY CallInfoAssumption, LenProperties
    <3> QED
      BY <3>1 DEF DeprecatedCallsSucceed
  <2>2. c # None
    BY NoneAssumption
  <2> QED
    BY <1>4, <1>13, <1>14, <2>1, <2>2 DEF CodeInStep
<1>18. CallIterInStep'
  <2>1. PICK u : /\ IterStack(u)'
                 /\ u[Len(os_frames) + 1] = preorder[Tail(top)] \o t[Len(os_frames)]
    BY <1>7
  <2>2. c # None
    BY NoneAssumption
  <2>3. call_iter' = InnerRest' \o u[Len(os_frames') + 1]
    BY <1>7, <1>8, <1>11, <1>13, <1>14, <2>1, <2>2 DEF InnerRest
  <2> QED
    BY <2>1, <2>3 DEF CallIterInStep
<1> QED
  BY <1>13, <1>14, <1>15, <1>16, <1>17, <1>18
     DEF NeverAborts, AnswersMatchQuestions, NoResponse

\* skip_call drops a call that recorded nothing on both sides.
LEMMA SkipCallStep == ASSUME IInv, SkipCall PROVE IInv'
<1> USE DEF IInv
<1>0. OsBetweenCalls
  BY DEF SkipCall
<1>1. /\ os_call = None /\ os_frames # <<>> /\ os_frames \in Seq(CallLists)
      /\ Len(os_frames) \in Nat \ {0}
      /\ TopFrame \in CallLists /\ TopFrame # <<>>
      /\ call_info = None /\ call_execution_info_ptr = None
      /\ IteratorsExhausted
  BY <1>0, TopFrameFacts DEF SkipCall
<1>2. PICK top \in CallLists : top = TopFrame
  BY <1>1
<1>3. PICK c \in CallInfo : c = Head(top)
  BY <1>1, <1>2, CallListsClosed
<1>4. /\ Tail(top) \in CallLists
      /\ c.inner_calls = <<>> /\ c.storage_read_values = <<>>
  BY <1>1, <1>2, <1>3, CallListsClosed, RecordedCalls DEF SkipCall
<1>5. PICK t : IterStack(t) /\ call_iter = InnerRest \o t[Len(os_frames) + 1]
  BY DEF CallIterInStep
<1>6. os_frames' = [os_frames EXCEPT ![Len(os_frames)] = Tail(top)]
  BY <1>2 DEF SkipCall, PopCall, TopFrame
<1>7. /\ os_frames' \in Seq(CallLists) /\ Len(os_frames') = Len(os_frames)
      /\ os_frames' # <<>>
      /\ t[Len(os_frames)] \in Seq(CallInfo)
      /\ t[Len(os_frames) + 1] = preorder[top] \o t[Len(os_frames)]
      /\ \E u : /\ IterStack(u)'
                /\ u[Len(os_frames) + 1] = preorder[Tail(top)] \o t[Len(os_frames)]
  BY <1>1, <1>2, <1>4, <1>5, <1>6, TakeFromTop DEF TopFrame
<1>8. PICK r \in Seq(CallInfo) : r = t[Len(os_frames)]
  BY <1>7
<1>9. preorder[top] \o r \in Seq(CallInfo) /\ preorder[Tail(top)] \o r \in Seq(CallInfo)
  BY <1>4, TopologyUnfolds, ConcatProperties
<1>10. call_iter = preorder[top] \o r
  BY <1>1, <1>5, <1>7, <1>8, <1>9, ConcatEmptySeq DEF InnerRest
<1>11. /\ call_iter # <<>> /\ Head(call_iter) = c
       /\ Tail(call_iter) = preorder[Tail(top)] \o r
  <2>1. preorder[c.inner_calls] = <<>>
    BY <1>4, CallListsClosed, TopologyUnfolds
  <2>2. /\ call_iter # <<>> /\ Head(call_iter) = c
        /\ Tail(call_iter) = preorder[c.inner_calls] \o (preorder[Tail(top)] \o r)
    BY <1>1, <1>2, <1>3, <1>10, PreorderStep
  <2> QED
    BY <1>9, <2>1, <2>2, ConcatEmptySeq
<1>12. /\ Results(c.inner_calls) = <<>> /\ ConstructorAddresses(c.inner_calls) = <<>>
  BY <1>4, CallListsClosed, ResultsStep, DeployedStep
<1>13. /\ call_iter' = Tail(call_iter)
       /\ UNCHANGED <<tx_execution_info_iter, tx_execution_info, tx_info_ptr,
                      call_info, call_execution_info_ptr, result_iter,
                      deployed_contracts_iter, execute_code_read_iter, status>>
       /\ UNCHANGED <<os_txs, os_call, os_pending, os_reads, response>>
  BY <1>1, <1>4, <1>11, <1>12
     DEF SkipCall, skip_call, txVars, codeIters, DeployedContracts, InnerResults,
         StorageReadValues
<1>14. TypeOK'
  <2>1. os_frames' \in Seq(Seq(CallInfo))
    BY <1>7, CallListsClosed, SeqMonotonic
  <2> QED
    BY <1>9, <1>11, <1>13, <2>1 DEF TypeOK
<1>15. HelperInStep'
  BY <1>1, <1>7, <1>13 DEF HelperInStep
<1>16. CodeInStep'
  BY <1>13 DEF CodeInStep
<1>17. CallIterInStep'
  <2>1. PICK u : /\ IterStack(u)'
                 /\ u[Len(os_frames) + 1] = preorder[Tail(top)] \o t[Len(os_frames)]
    BY <1>7
  <2>2. call_iter' = InnerRest' \o u[Len(os_frames') + 1]
    BY <1>1, <1>7, <1>8, <1>9, <1>11, <1>13, <2>1, ConcatEmptySeq DEF InnerRest
  <2> QED
    BY <2>1, <2>2 DEF CallIterInStep
<1> QED
  BY <1>13, <1>14, <1>15, <1>16, <1>17 DEF NeverAborts, AnswersMatchQuestions

\* exit_call finds its iterators exhausted when the code has returned.
LEMMA ExitCallStep == ASSUME IInv, ExitCall PROVE IInv'
<1> USE DEF IInv
<1>1. /\ os_call # None /\ os_call \in CallInfo /\ os_frames # <<>>
      /\ os_frames \in Seq(CallLists) /\ call_info = os_call
  BY DEF ExitCall, TypeOK, HelperInStep
<1>2. IteratorsExhausted
  BY CallListsClosed, ResultsStep, DeployedStep
     DEF ExitCall, CodeInStep, IteratorsExhausted
<1>3. PICK c \in CallInfo : c = os_call
  BY <1>1
<1>n. PICK n \in Nat : n = Len(os_frames)
  BY <1>1, LenProperties
<1>4. c.inner_calls \in CallLists
  BY CallListsClosed
<1>5. /\ call_execution_info_ptr' = None /\ call_info' = None
      /\ UNCHANGED <<tx_execution_info_iter, tx_execution_info, tx_info_ptr,
                     call_iter, result_iter, deployed_contracts_iter,
                     execute_code_read_iter, status>>
      /\ os_frames' = Append(os_frames, c.inner_calls)
      /\ os_call' = None
      /\ UNCHANGED <<os_txs, os_pending, os_reads, response>>
  BY <1>1, <1>2, <1>3 DEF ExitCall, exit_call, txVars, codeIters
<1>6. /\ os_frames' \in Seq(CallLists) /\ os_frames' # <<>>
      /\ Len(os_frames') = n + 1
      /\ \A i \in 1 .. n : os_frames'[i] = os_frames[i]
      /\ os_frames'[n + 1] = c.inner_calls
  BY <1>1, <1>n, <1>4, <1>5, AppendProperties
<1>7. TypeOK'
  <2>1. os_frames' \in Seq(Seq(CallInfo))
    BY <1>6, CallListsClosed, SeqMonotonic
  <2> QED
    BY <1>5, <2>1 DEF TypeOK
<1>8. HelperInStep'
  BY <1>1, <1>5, <1>6 DEF HelperInStep
<1>9. CodeInStep'
  BY <1>5 DEF CodeInStep, ExitCall
<1>10. CallIterInStep'
  <2>1. PICK t : IterStack(t) /\ call_iter = InnerRest \o t[n + 1]
    BY <1>n DEF CallIterInStep
  <2>2. /\ t \in [1 .. (n + 1) -> Seq(CallInfo)] /\ t[1] = <<>>
        /\ \A i \in 1 .. n : t[i + 1] = preorder[os_frames[i]] \o t[i]
    BY <1>n, <2>1 DEF IterStack
  <2>3. t[n + 1] \in Seq(CallInfo)
    <3>1. n + 1 \in 1 .. (n + 1)
      OBVIOUS
    <3> QED
      BY <2>2, <3>1
  <2>4. preorder[c.inner_calls] \o t[n + 1] \in Seq(CallInfo)
    BY <1>4, <2>3, TopologyUnfolds, ConcatProperties
  <2>5. PICK p \in Seq(CallInfo) : p = preorder[c.inner_calls] \o t[n + 1]
    BY <2>4
  <2>6. PICK u : u = [i \in 1 .. (n + 2) |-> IF i = n + 2 THEN p ELSE t[i]]
    OBVIOUS
  <2>7. /\ u \in [1 .. (n + 2) -> Seq(CallInfo)]
        /\ \A i \in 1 .. (n + 1) : u[i] = t[i]
        /\ u[n + 2] = p
    BY <2>2, <2>6
  <2>8. \A i \in 1 .. (n + 1) : u[i + 1] = preorder[os_frames'[i]] \o u[i]
    <3> SUFFICES ASSUME NEW i \in 1 .. (n + 1)
                 PROVE  u[i + 1] = preorder[os_frames'[i]] \o u[i]
      OBVIOUS
    <3>1. CASE i = n + 1
      <4>1. i + 1 = n + 2 /\ i \in 1 .. (n + 1)
        BY <3>1
      <4>2. u[i + 1] = p /\ u[i] = t[n + 1] /\ os_frames'[i] = c.inner_calls
        BY <1>6, <2>7, <3>1, <4>1
      <4> QED
        BY <2>5, <4>2
    <3>2. CASE i # n + 1
      <4>1. i \in 1 .. n /\ i + 1 \in 1 .. (n + 1)
        BY <3>2
      <4> QED
        BY <1>6, <2>2, <2>7, <4>1
    <3> QED
      BY <3>1, <3>2
  <2>9. IterStack(u)'
    <3>1. 1 \in 1 .. (n + 1)
      OBVIOUS
    <3>2. u[1] = <<>>
      BY <2>2, <2>7, <3>1
    <3>3. (n + 1) + 1 = n + 2
      OBVIOUS
    <3> QED
      BY <1>6, <2>7, <2>8, <3>2, <3>3 DEF IterStack
  <2>10. call_iter' = p
    BY <1>1, <1>3, <1>5, <2>1, <2>5 DEF InnerRest
  <2>11. call_iter' = InnerRest' \o u[Len(os_frames') + 1]
    <3>1. (n + 1) + 1 = n + 2
      OBVIOUS
    <3>2. InnerRest' = <<>>
      BY <1>5 DEF InnerRest
    <3>3. <<>> \o p = p
      BY ConcatEmptySeq
    <3> QED
      BY <1>6, <2>7, <2>10, <3>1, <3>2, <3>3
  <2> QED
    BY <2>9, <2>11 DEF CallIterInStep
<1> QED
  BY <1>5, <1>7, <1>8, <1>9, <1>10 DEF NeverAborts, AnswersMatchQuestions

\* Coming back from the inner calls of a call leaves the helper as it is.
LEMMA ReturnStep == ASSUME IInv, Return PROVE IInv'
<1> USE DEF IInv
<1>1. /\ os_call = None /\ os_frames \in Seq(CallLists) /\ os_frames # <<>>
      /\ Len(os_frames) > 1 /\ TopFrame = <<>>
  BY TopFrameFacts DEF Return
<1>n. PICK n \in Nat : n = Len(os_frames) - 1 /\ n \in Nat \ {0}
  BY <1>1, LenProperties
<1>2. /\ os_frames' = SubSeq(os_frames, 1, n)
      /\ UNCHANGED <<tx_execution_info_iter, tx_execution_info, tx_info_ptr,
                     call_iter, call_info, call_execution_info_ptr, result_iter,
                     deployed_contracts_iter, execute_code_read_iter, status>>
      /\ UNCHANGED <<os_txs, os_call, os_pending, os_reads, response>>
  BY <1>n DEF Return, helperVars, txVars, callVars, codeIters
<1>3. /\ os_frames' \in Seq(CallLists) /\ Len(os_frames') = n
      /\ \A i \in 1 .. n : os_frames'[i] = os_frames[i]
  <2>1. Len(os_frames) = n + 1
    BY <1>1, <1>n, LenProperties
  <2>2. \A i \in 1 .. n : os_frames[i] \in CallLists
    BY <1>1, <1>n, <2>1, ElementOfSeq
  <2>3. /\ SubSeq(os_frames, 1, n) \in Seq(CallLists)
        /\ Len(SubSeq(os_frames, 1, n)) = IF 1 <= n THEN n - 1 + 1 ELSE 0
        /\ \A i \in 1 .. n - 1 + 1 : SubSeq(os_frames, 1, n)[i] = os_frames[1 + i - 1]
    BY <1>n, <2>2, SubSeqProperties
  <2>4. \A i \in 1 .. n : 1 + i - 1 = i
    OBVIOUS
  <2> QED
    BY <1>n, <1>2, <2>3, <2>4
<1>4. os_frames' # <<>>
  BY <1>n, <1>3, EmptySeq
<1>5. TypeOK'
  <2>1. os_frames' \in Seq(Seq(CallInfo))
    BY <1>3, CallListsClosed, SeqMonotonic
  <2> QED
    BY <1>2, <2>1 DEF TypeOK
<1>6. HelperInStep'
  BY <1>1, <1>2, <1>3, <1>4 DEF HelperInStep
<1>7. CodeInStep'
  BY <1>2 DEF CodeInStep
<1>8. CallIterInStep'
  <2>1. Len(os_frames) = n + 1 /\ os_frames[n + 1] = <<>>
    BY <1>1, <1>n, LenProperties DEF TopFrame
  <2>2. PICK t : IterStack(t) /\ call_iter = InnerRest \o t[(n + 1) + 1]
    BY <2>1 DEF CallIterInStep
  <2>3. /\ t \in [1 .. ((n + 1) + 1) -> Seq(CallInfo)] /\ t[1] = <<>>
        /\ \A i \in 1 .. (n + 1) : t[i + 1] = preorder[os_frames[i]] \o t[i]
    BY <2>1, <2>2 DEF IterStack
  <2>4. t[(n + 1) + 1] = t[n + 1] /\ t[n + 1] \in Seq(CallInfo)
    <3>1. n + 1 \in 1 .. (n + 1) /\ n + 1 \in 1 .. ((n + 1) + 1)
      BY <1>n
    <3>2. t[n + 1] \in Seq(CallInfo)
      BY <2>3, <3>1
    <3>3. preorder[<<>>] = <<>>
      BY CallListsClosed, TopologyUnfolds
    <3>4. t[(n + 1) + 1] = preorder[os_frames[n + 1]] \o t[n + 1]
      BY <2>3, <3>1
    <3>5. t[(n + 1) + 1] = <<>> \o t[n + 1]
      BY <2>1, <3>3, <3>4
    <3> QED
      BY <3>2, <3>5, ConcatEmptySeq
  <2>5. PICK u : u = [i \in 1 .. (n + 1) |-> t[i]]
    OBVIOUS
  <2>6. /\ u \in [1 .. (n + 1) -> Seq(CallInfo)]
        /\ \A i \in 1 .. (n + 1) : u[i] = t[i]
    BY <2>3, <2>5
  <2>7. IterStack(u)'
    <3>1. 1 \in 1 .. (n + 1)
      BY <1>n
    <3>2. u[1] = <<>>
      BY <2>3, <2>6, <3>1
    <3>3. \A i \in 1 .. n : u[i + 1] = preorder[os_frames'[i]] \o u[i]
      <4> SUFFICES ASSUME NEW i \in 1 .. n
                   PROVE  u[i + 1] = preorder[os_frames'[i]] \o u[i]
        OBVIOUS
      <4>1. i \in 1 .. (n + 1) /\ i + 1 \in 1 .. (n + 1)
        BY <1>n
      <4> QED
        BY <1>3, <2>3, <2>6, <4>1
    <3> QED
      BY <1>3, <2>6, <3>2, <3>3 DEF IterStack
  <2>8. call_iter' = InnerRest' \o u[Len(os_frames') + 1]
    <3>1. n + 1 \in 1 .. (n + 1)
      BY <1>n
    <3> QED
      BY <1>1, <1>2, <1>3, <2>2, <2>4, <2>6, <3>1 DEF InnerRest
  <2> QED
    BY <2>7, <2>8 DEF CallIterInStep
<1> QED
  BY <1>2, <1>5, <1>6, <1>7, <1>8 DEF NeverAborts, AnswersMatchQuestions

\* end_tx finds no call left when the OS has executed them all.
LEMMA EndTxStep == ASSUME IInv, EndTx PROVE IInv'
<1> USE DEF IInv
<1>1. /\ os_call = None /\ os_frames \in Seq(CallLists) /\ os_frames # <<>>
      /\ Len(os_frames) = 1 /\ os_frames[1] = <<>>
      /\ tx_execution_info # None
  BY TopFrameFacts DEF EndTx, TopFrame, HelperInStep
<1>2. call_iter = <<>>
  <2>1. PICK t : IterStack(t) /\ call_iter = InnerRest \o t[1 + 1]
    BY <1>1 DEF CallIterInStep
  <2>2. t[1] = <<>> /\ t[1 + 1] = preorder[os_frames[1]] \o t[1]
    <3>1. \A i \in 1 .. 1 : t[i + 1] = preorder[os_frames[i]] \o t[i]
      BY <1>1, <2>1 DEF IterStack
    <3>2. 1 \in 1 .. 1
      OBVIOUS
    <3>3. t[1] = <<>>
      BY <2>1 DEF IterStack
    <3> QED
      BY <3>1, <3>2, <3>3
  <2>3. preorder[<<>>] = <<>>
    BY CallListsClosed, TopologyUnfolds
  <2>4. InnerRest = <<>>
    BY <1>1 DEF InnerRest
  <2> QED
    BY <1>1, <2>1, <2>2, <2>3, <2>4
<1>3. /\ tx_info_ptr' = None /\ tx_execution_info' = None
      /\ UNCHANGED <<tx_execution_info_iter, call_iter, call_info,
                     call_execution_info_ptr, result_iter,
                     deployed_contracts_iter, execute_code_read_iter, status>>
      /\ os_frames' = <<>>
      /\ UNCHANGED <<os_txs, os_call, os_pending, os_reads, response>>
  BY <1>1, <1>2 DEF EndTx, end_tx, callVars, codeIters
<1>4. TypeOK'
  BY <1>3 DEF TypeOK
<1>5. HelperInStep'
  BY <1>1, <1>3 DEF HelperInStep
<1>6. CodeInStep'
  BY <1>3 DEF CodeInStep
<1>7. CallIterInStep'
  <2>1. PICK t : t = [i \in 1 .. 1 |-> <<>>]
    OBVIOUS
  <2>2. t \in [1 .. 1 -> Seq(CallInfo)] /\ t[1] = <<>>
    BY <2>1
  <2>3. IterStack(t)'
    BY <1>3, <2>2 DEF IterStack
  <2>4. call_iter' = InnerRest' \o t[Len(os_frames') + 1]
    BY <1>1, <1>2, <1>3, <2>2 DEF InnerRest
  <2> QED
    BY <2>3, <2>4 DEF CallIterInStep
<1> QED
  BY <1>3, <1>4, <1>5, <1>6, <1>7 DEF NeverAborts, AnswersMatchQuestions

\* A storage_read takes the recorded value of this very read.
LEMMA ReadSyscallStep == ASSUME IInv, ReadSyscall PROVE IInv'
<1> USE DEF IInv
<1>1. /\ execute_code_read_iter = os_reads /\ os_reads # <<>>
      /\ os_reads \in Seq(Value) /\ Tail(os_reads) \in Seq(Value)
      /\ os_call # None
  BY HeadTailProperties DEF ReadSyscall, CodeInStep, TypeOK
<1>2. /\ execute_code_read_iter' = Tail(os_reads)
      /\ response' = [expected |-> Head(os_reads), got |-> Head(os_reads)]
      /\ UNCHANGED <<tx_execution_info_iter, tx_execution_info, tx_info_ptr,
                     call_iter, call_info, call_execution_info_ptr,
                     result_iter, deployed_contracts_iter, status>>
      /\ os_reads' = Tail(os_reads)
      /\ UNCHANGED <<os_txs, os_frames, os_call, os_pending>>
  BY <1>1 DEF ReadSyscall, StorageRead, Respond, txVars
<1>3. TypeOK'
  BY <1>1, <1>2 DEF TypeOK
<1>4. HelperInStep'
  BY <1>2 DEF HelperInStep
<1>5. CodeInStep'
  BY <1>1, <1>2 DEF CodeInStep
<1>6. CallIterInStep'
  BY <1>2, CallIterKept
<1>7. AnswersMatchQuestions'
  BY <1>2 DEF AnswersMatchQuestions
<1> QED
  BY <1>2, <1>3, <1>4, <1>5, <1>6, <1>7 DEF NeverAborts

\* A response equal to the recorded one keeps the answers in step.
LEMMA RespondEqual ==
    ASSUME NEW e, Respond(e, e) PROVE response'.got = response'.expected
BY DEF Respond

\* One inner call is asked for: its result leaves result_iter, and its
\* address leaves deployed_contracts_iter exactly when it is a deployment.
LEMMA CallSyscallStep ==
    ASSUME ConstructorsSucceed, IInv, CallSyscall PROVE IInv'
<1> USE DEF IInv
<1>1. /\ os_call # None /\ os_call \in CallInfo
      /\ os_pending \in CallLists /\ os_pending # <<>>
      /\ result_iter = Results(os_pending)
      /\ deployed_contracts_iter = ConstructorAddresses(os_pending)
  BY DEF CallSyscall, TypeOK, CodeInStep
<1>2. /\ Head(os_pending) \in CallInfo /\ Tail(os_pending) \in CallLists
      /\ Tail(os_pending) \in Seq(CallInfo)
  BY <1>1, CallListsClosed
<1>c. PICK c \in CallInfo : c = Head(os_pending)
  BY <1>2
<1>3. /\ result_iter # <<>> /\ Head(result_iter) = CallResult(c)
      /\ Tail(result_iter) = Results(Tail(os_pending))
      /\ Results(Tail(os_pending)) \in Seq(CallResults)
  BY <1>1, <1>2, <1>c, ResultsStep
<1>4. /\ ConstructorAddresses(Tail(os_pending)) \in Seq(Address)
      /\ ~IsConstructor(c) =>
            deployed_contracts_iter = ConstructorAddresses(Tail(os_pending))
      /\ IsConstructor(c) =>
            /\ deployed_contracts_iter # <<>>
            /\ Head(deployed_contracts_iter) = c.storage_address
            /\ Tail(deployed_contracts_iter) = ConstructorAddresses(Tail(os_pending))
  BY <1>1, <1>2, <1>c, DeployedStep
<1>5. IsConstructor(c) => ~c.failed
  BY DEF ConstructorsSucceed, IsConstructor
<1>6. os_call.deprecated => ~c.failed
  <2>1. os_pending \in Seq(CallInfo)
    BY <1>1, CallListsClosed
  <2>2. Head(os_pending) = os_pending[1] /\ 1 \in 1 .. Len(os_pending)
    BY <1>1, <2>1, EmptySeq
  <2> QED
    BY <1>1, <1>c, <2>2 DEF CodeInStep
<1>7. c.failed \in BOOLEAN /\ CallResult(c).failed = c.failed
  BY CallInfoAssumption DEF CallResult
<1>8. /\ result_iter' = Results(Tail(os_pending))
      /\ deployed_contracts_iter' = ConstructorAddresses(Tail(os_pending))
      /\ response'.got = response'.expected
      /\ UNCHANGED <<tx_execution_info_iter, tx_execution_info, tx_info_ptr,
                     call_iter, call_info, call_execution_info_ptr,
                     execute_code_read_iter, status>>
  <2>1. CASE os_call.deprecated /\ IsConstructor(c)
    <3>1. DeprecatedDeploy([failed |-> FALSE, retdata |-> None,
                            address |-> c.storage_address])
      BY <1>c, <2>1 DEF CallSyscall, IsConstructor
    <3>2. /\ result_iter' = Tail(result_iter)
          /\ deployed_contracts_iter' = Tail(deployed_contracts_iter)
          /\ Respond([failed |-> FALSE, retdata |-> None,
                      address |-> c.storage_address],
                     [failed |-> FALSE, retdata |-> None,
                      address |-> Head(deployed_contracts_iter)])
          /\ UNCHANGED <<txVars, call_iter, call_info, call_execution_info_ptr,
                         execute_code_read_iter, status>>
      BY <1>3, <1>4, <2>1, <3>1, Zenon DEF DeprecatedDeploy
    <3>3. response'.got = response'.expected
      BY <1>4, <2>1, <3>2, RespondEqual
    <3> QED
      BY <1>3, <1>4, <2>1, <3>2, <3>3 DEF txVars
  <2>2. CASE os_call.deprecated /\ ~IsConstructor(c)
    <3>1. DeprecatedCallContract(CallResponse(CallResult(c), None))
      BY <1>c, <2>2 DEF CallSyscall, IsConstructor
    <3>2. [failed |-> FALSE, address |-> None, retdata |-> CallResult(c).retdata]
             = CallResponse(CallResult(c), None)
      <4>1. CallResult(c).failed = FALSE
        BY <1>6, <1>7, <2>2
      <4> QED
        BY <4>1 DEF CallResponse
    <3>3. /\ result_iter' = Tail(result_iter)
          /\ Respond(CallResponse(CallResult(c), None),
                     CallResponse(CallResult(c), None))
          /\ UNCHANGED <<txVars, call_iter, call_info, call_execution_info_ptr,
                         deployed_contracts_iter, execute_code_read_iter, status>>
      <4>1. /\ result_iter' = Tail(result_iter)
            /\ Respond(CallResponse(CallResult(c), None),
                  [failed |-> FALSE, address |-> None,
                   retdata |-> Head(result_iter).retdata])
            /\ UNCHANGED <<txVars, call_iter, call_info, call_execution_info_ptr,
                           deployed_contracts_iter, execute_code_read_iter, status>>
        BY <1>3, <3>1, Zenon DEF DeprecatedCallContract
      <4> QED
        BY <1>3, <3>2, <4>1
    <3>4. response'.got = response'.expected
      BY <3>3, RespondEqual
    <3> QED
      BY <1>3, <1>4, <2>2, <3>3, <3>4 DEF txVars
  <2>3. CASE ~os_call.deprecated /\ IsConstructor(c)
    <3>1. Deploy(CallResponse(CallResult(c), c.storage_address))
      BY <1>c, <1>5, <2>3 DEF CallSyscall, IsConstructor
    <3>2. ~Head(result_iter).failed
      BY <1>3, <1>5, <1>7, <2>3
    <3>3. /\ result_iter' = Tail(result_iter)
          /\ deployed_contracts_iter' = Tail(deployed_contracts_iter)
          /\ Respond(CallResponse(CallResult(c), c.storage_address),
                     CallResponse(Head(result_iter), Head(deployed_contracts_iter)))
          /\ UNCHANGED <<txVars, call_iter, call_info, call_execution_info_ptr,
                         execute_code_read_iter, status>>
      BY <1>3, <1>4, <2>3, <3>1, <3>2 DEF Deploy
    <3>4. response'.got = response'.expected
      BY <1>3, <1>4, <2>3, <3>3, RespondEqual
    <3> QED
      BY <1>3, <1>4, <2>3, <3>3, <3>4 DEF txVars
  <2>4. CASE ~os_call.deprecated /\ ~IsConstructor(c)
    <3>1. CallContract(CallResponse(CallResult(c), None))
      BY <1>c, <2>4 DEF CallSyscall, IsConstructor
    <3> QED
      BY <1>3, <1>4, <2>4, <3>1 DEF CallContract, Respond, txVars
  <2> QED
    BY <2>1, <2>2, <2>3, <2>4
<1>9. os_pending' = Tail(os_pending)
      /\ UNCHANGED <<os_txs, os_frames, os_call, os_reads>>
  BY DEF CallSyscall
<1>10. TypeOK'
  BY <1>2, <1>3, <1>4, <1>8, <1>9 DEF TypeOK
<1>11. HelperInStep'
  BY <1>8, <1>9 DEF HelperInStep
<1>12. CodeInStep'
  <2>1. os_call.deprecated => \A i \in 1 .. Len(Tail(os_pending)) : ~Tail(os_pending)[i].failed
    <3> SUFFICES ASSUME os_call.deprecated, NEW i \in 1 .. Len(Tail(os_pending))
                 PROVE  ~Tail(os_pending)[i].failed
      OBVIOUS
    <3>1. os_pending \in Seq(CallInfo)
      BY <1>1, CallListsClosed
    <3>2. Tail(os_pending)[i] = os_pending[i + 1] /\ i + 1 \in 1 .. Len(os_pending)
      BY <1>1, <3>1, HeadTailProperties, LenProperties
    <3> QED
      BY <1>1, <3>2 DEF CodeInStep
  <2> QED
    BY <1>1, <1>2, <1>8, <1>9, <2>1 DEF CodeInStep
<1>13. CallIterInStep'
  BY <1>8, <1>9, CallIterKept
<1>14. AnswersMatchQuestions'
  BY <1>8 DEF AnswersMatchQuestions
<1> QED
  BY <1>8, <1>10, <1>11, <1>12, <1>13, <1>14 DEF NeverAborts

\* A step that changes nothing keeps the invariant.
LEMMA StutterStep == ASSUME IInv, UNCHANGED vars PROVE IInv'
<1> USE DEF IInv, vars, helperVars, osVars, txVars, callVars, codeIters
<1>1. TypeOK'
  BY DEF TypeOK
<1>2. HelperInStep' /\ CodeInStep' /\ NeverAborts' /\ AnswersMatchQuestions'
  BY DEF HelperInStep, CodeInStep, NeverAborts, AnswersMatchQuestions
<1>3. CallIterInStep'
  BY CallIterKept
<1> QED
  BY <1>1, <1>2, <1>3

-----------------------------------------------------------------------------
(***************************************************************************)
(* For every block whose recorded constructor calls succeeded and whose    *)
(* Cairo 0 code saw no failed call: the OS's recursion over the calls and  *)
(* the helper's flat iterators stay in step to the end.  No assertion,     *)
(* unwrap or exhausted-iterator error of helper.rs and of the syscall      *)
(* handlers is reached, the helper replays the call that is running, and   *)
(* contract code is given the recorded answer to its own question.         *)
(***************************************************************************)
THEOREM ReplayInStep ==
    ASSUME ConstructorsSucceed, DeprecatedCallsSucceed
    PROVE  Spec => []IInv
<1>1. Init => IInv
  BY InitIInv
<1>2. IInv /\ [Next]_vars => IInv'
  <2> SUFFICES ASSUME IInv, [Next]_vars PROVE IInv'
    OBVIOUS
  <2>1. CASE StartTx
    BY <2>1, StartTxStep
  <2>2. CASE SkipTx
    BY <2>2, SkipTxStep
  <2>3. CASE EndTx
    BY <2>3, EndTxStep
  <2>4. CASE EnterCall
    BY <2>4, EnterCallStep
  <2>5. CASE SkipCall
    BY <2>5, SkipCallStep
  <2>6. CASE ExitCall
    BY <2>6, ExitCallStep
  <2>7. CASE Return
    BY <2>7, ReturnStep
  <2>8. CASE CallSyscall
    BY <2>8, CallSyscallStep
  <2>9. CASE ReadSyscall
    BY <2>9, ReadSyscallStep
  <2>10. CASE UNCHANGED vars
    BY <2>10, StutterStep
  <2> QED
    BY <2>1, <2>2, <2>3, <2>4, <2>5, <2>6, <2>7, <2>8, <2>9, <2>10 DEF Next, Finished
<1> QED
  BY <1>1, <1>2, PTL DEF Spec

\* The variables of helper and OS keep their types.
THEOREM TypeCorrect ==
    ASSUME ConstructorsSucceed, DeprecatedCallsSucceed
    PROVE  Spec => []TypeOK
<1>1. IInv => TypeOK
  BY DEF IInv
<1> QED
  BY <1>1, ReplayInStep, PTL

\* No panic and no hint error, whatever the recorded call trees.
THEOREM ReplayNeverAborts ==
    ASSUME ConstructorsSucceed, DeprecatedCallsSucceed
    PROVE  Spec => []NeverAborts
<1>1. IInv => NeverAborts
  BY DEF IInv
<1> QED
  BY <1>1, ReplayInStep, PTL

\* The pre-order list computed in advance by gen_call_iterator is the order of
\* the OS's recursion: the call being replayed is the call being executed.
THEOREM ReplayFollowsExecution ==
    ASSUME ConstructorsSucceed, DeprecatedCallsSucceed
    PROVE  Spec => []ReplaysTheRunningCall
<1>1. IInv => ReplaysTheRunningCall
  BY DEF IInv, HelperInStep, ReplaysTheRunningCall
<1> QED
  BY <1>1, ReplayInStep, PTL

\* Results, deployed addresses and reads never get out of step.
THEOREM AnswersAlwaysMatch ==
    ASSUME ConstructorsSucceed, DeprecatedCallsSucceed
    PROVE  Spec => []AnswersMatchQuestions
<1>1. IInv => AnswersMatchQuestions
  BY DEF IInv
<1> QED
  BY <1>1, ReplayInStep, PTL

=============================================================================
