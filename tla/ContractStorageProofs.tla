----------------------- MODULE ContractStorageProofs -----------------------
(***************************************************************************)
(* Proofs about ContractStorage, for every set of contracts, keys and      *)
(* values, any number of syscalls, and both kinds of storage.              *)
(*                                                                         *)
(* The inductive invariant says that the OS's view of storage (cache over  *)
(* previous tree) is the storage of the execution at the same point of the *)
(* program, that the dicts bridge the previous tree and that storage, and  *)
(* that whatever the dicts mention is in the cache.                        *)
(***************************************************************************)
EXTENDS ContractStorage, SequenceTheorems, TLAPS

\* The cache over the previous tree is the storage of the execution.
StorageInStep == \A a \in Tracked, k \in Key : Lookup(a, k) = actual[a][k]

\* The keys of the dicts have been through the storage.
DictsCached ==
    \A a \in Tracked, k \in Key : InDict(a, k) => Cached(a, k)

\* The keys of pending get_block_hash syscalls have been through the storage.
HashCached(op) == op.name = "block_hash" =>
    BlockHashContract \in Tracked /\ Cached(BlockHashContract, op.key)

PendingHashesCached == /\ \A i \in DOMAIN issued : HashCached(issued[i])
                       /\ \A i \in DOMAIN todo : HashCached(todo[i])

\* Nothing has been accessed before the block starts, and the slot of the old
\* block is empty.
UntouchedAtStart ==
    phase = "start" =>
        /\ previous[BlockHashContract][OldBlock] = Zero
        /\ ~InDict(BlockHashContract, OldBlock)

\* No code has run before the block starts.
IdleAtStart == phase = "start" => issued = <<>> /\ todo = <<>>

IInv == /\ TypeOK
        /\ StorageInStep
        /\ HintsAgreeWithExecution
        /\ DictsAreTheStateDiff
        /\ DictsCached
        /\ BlockHashAnswersStayValid
        /\ PendingHashesCached
        /\ UntouchedAtStart
        /\ IdleAtStart
        /\ CommitmentsMatchExecution

-----------------------------------------------------------------------------
\* The execution sets one key of one contract.
ActualSet(a, k, v) ==
    \A b \in Address, x \in Key :
        actual'[b][x] = IF b = a /\ x = k THEN v ELSE actual[b][x]

\* The OS sets one key of one contract in its storage.
StorageSet(a, k, v) ==
    /\ DOMAIN ongoing_storage_changes' = Tracked
    /\ \A b \in Tracked : ongoing_storage_changes'[b] \in PartialMaps(Value)
    /\ \A b \in Tracked, x \in Key :
          /\ Lookup(b, x)' = IF b = a /\ x = k THEN v ELSE Lookup(b, x)
          /\ Cached(b, x)' <=> Cached(b, x) \/ (b = a /\ x = k)

\* The dict of a contract has an access to a key.
DictSet(a, k) ==
    /\ DOMAIN squashed' = Address
    /\ \A b \in Address :
          squashed'[b] \in PartialMaps([first : Value, last : Value])
    /\ \A b \in Address, x \in Key :
          InDict(b, x)' <=> InDict(b, x) \/ (b = a /\ x = k)

\* HashMap::insert changes what is read at one key of one contract only.
LEMMA InsertLemma ==
    ASSUME TypeOK, NEW a \in Tracked, NEW k \in Key, NEW v \in Value,
           ongoing_storage_changes' = Insert(a, k, v),
           previous' = previous
    PROVE  StorageSet(a, k, v)
<1> DEFINE new == [x \in DOMAIN ongoing_storage_changes[a] \cup {k} |->
                      IF x = k THEN v ELSE ongoing_storage_changes[a][x]]
<1>1. /\ DOMAIN ongoing_storage_changes = Tracked
      /\ \A b \in Tracked : ongoing_storage_changes[b] \in PartialMaps(Value)
  BY DEF TypeOK
<1>2. /\ DOMAIN ongoing_storage_changes' = Tracked
      /\ ongoing_storage_changes'[a] = new
      /\ \A b \in Tracked \ {a} :
            ongoing_storage_changes'[b] = ongoing_storage_changes[b]
  BY <1>1 DEF Insert
<1>3. PICK d \in SUBSET Key : ongoing_storage_changes[a] \in [d -> Value]
  BY <1>1 DEF PartialMaps
<1>4. /\ new \in [d \cup {k} -> Value]
      /\ d \cup {k} \in SUBSET Key
  BY <1>3
<1>5. new \in PartialMaps(Value)
  BY <1>4 DEF PartialMaps
<1>6. \A b \in Tracked : ongoing_storage_changes'[b] \in PartialMaps(Value)
  BY <1>1, <1>2, <1>5
<1>7. ASSUME NEW b \in Tracked, NEW x \in Key
      PROVE  /\ Lookup(b, x)' = IF b = a /\ x = k THEN v ELSE Lookup(b, x)
             /\ Cached(b, x)' <=> Cached(b, x) \/ (b = a /\ x = k)
  <2>1. CASE b = a
    BY <1>2, <2>1 DEF Lookup, Cached, Fetch
  <2>2. CASE b # a
    BY <1>2, <2>2 DEF Lookup, Cached, Fetch
  <2> QED BY <2>1, <2>2
<1> QED BY <1>2, <1>6, <1>7 DEF StorageSet

\* A dict access that starts from the current value keeps the dict chain
\* whole and the dict the state diff.
LEMMA DictLemma ==
    ASSUME TypeOK, DictsAreTheStateDiff,
           NEW a \in Address, NEW k \in Key, NEW prev, NEW new \in Value,
           prev = actual[a][k],
           DictUpdate(a, k, prev, new),
           previous' = previous,
           ActualSet(a, k, new)
    PROVE  /\ status' = status
           /\ DictsAreTheStateDiff'
           /\ DictSet(a, k)
<1> DEFINE R == [first : Value, last : Value]
           r == [first |-> IF InDict(a, k) THEN squashed[a][k].first
                           ELSE actual[a][k],
                 last |-> new]
           m == [x \in DOMAIN squashed[a] \cup {k} |->
                    IF x # k THEN squashed[a][x] ELSE r]
<1>1. /\ DOMAIN squashed = Address
      /\ \A b \in Address : squashed[b] \in PartialMaps(R)
      /\ actual[a][k] \in Value
  BY DEF TypeOK
<1>2. InDict(a, k) => squashed[a][k].last = actual[a][k]
  BY DEF DictsAreTheStateDiff
<1>3. /\ status' = status
      /\ squashed' = [squashed EXCEPT ![a] = m]
  BY <1>2 DEF DictUpdate
<1>4. PICK d \in SUBSET Key : squashed[a] \in [d -> R]
  BY <1>1 DEF PartialMaps
<1>5. r \in R
  BY <1>1, <1>4 DEF InDict
<1>6. m \in [d \cup {k} -> R] /\ d \cup {k} \in SUBSET Key
  <2> HIDE DEF R, r
  <2> QED BY <1>4, <1>5
<1>7. m \in PartialMaps(R)
  <2> HIDE DEF R, m
  <2> QED BY <1>6 DEF PartialMaps
<1>8. /\ DOMAIN squashed' = Address
      /\ squashed'[a] = m
      /\ \A b \in Address \ {a} : squashed'[b] = squashed[b]
  <2> HIDE DEF m
  <2> QED BY <1>1, <1>3
<1>9. \A b \in Address : squashed'[b] \in PartialMaps(R)
  BY <1>1, <1>7, <1>8
<1>10. ASSUME NEW b \in Address, NEW x \in Key
       PROVE  InDict(b, x)' <=> InDict(b, x) \/ (b = a /\ x = k)
  <2>1. CASE b = a
    BY <1>8, <2>1 DEF InDict
  <2>2. CASE b # a
    BY <1>8, <2>2 DEF InDict
  <2> QED BY <2>1, <2>2
<1>11. ASSUME NEW b \in Address, NEW x \in Key
       PROVE  IF InDict(b, x)'
              THEN /\ squashed'[b][x].first = previous'[b][x]
                   /\ squashed'[b][x].last = actual'[b][x]
              ELSE actual'[b][x] = previous'[b][x]
  <2>1. IF InDict(b, x)
        THEN squashed[b][x].first = previous[b][x] /\ squashed[b][x].last = actual[b][x]
        ELSE actual[b][x] = previous[b][x]
    BY DEF DictsAreTheStateDiff
  <2>2. CASE b = a /\ x = k
    <3>1. InDict(b, x)'
      BY <1>10, <2>2
    <3>2. squashed'[b][x] = r
      <4> HIDE DEF r
      <4> QED BY <1>8, <2>2
    <3>3. actual'[b][x] = new
      BY <2>2 DEF ActualSet
    <3> QED BY <2>1, <2>2, <3>1, <3>2, <3>3
  <2>3. CASE b = a /\ x # k
    <3>1. actual'[b][x] = actual[b][x] /\ (InDict(b, x)' <=> InDict(b, x))
      BY <1>10, <2>3 DEF ActualSet
    <3>2. InDict(b, x) => squashed'[b][x] = squashed[b][x]
      <4> HIDE DEF r
      <4> QED BY <1>8, <2>3 DEF InDict
    <3> QED BY <2>1, <3>1, <3>2
  <2>4. CASE b # a
    <3>1. actual'[b][x] = actual[b][x] /\ (InDict(b, x)' <=> InDict(b, x))
      BY <1>10, <2>4 DEF ActualSet
    <3>2. squashed'[b] = squashed[b]
      BY <1>8, <2>4
    <3> QED BY <2>1, <3>1, <3>2
  <2> QED BY <2>2, <2>3, <2>4
<1>12. DictsAreTheStateDiff'
  BY <1>11 DEF DictsAreTheStateDiff
<1> QED BY <1>3, <1>8, <1>9, <1>10, <1>12 DEF DictSet

-----------------------------------------------------------------------------
\* The storage part of the invariant is about four variables.
LEMMA StorageFrame ==
    ASSUME StorageInStep, DictsAreTheStateDiff, DictsCached,
           UNCHANGED <<previous, ongoing_storage_changes, actual, squashed>>
    PROVE  StorageInStep' /\ DictsAreTheStateDiff' /\ DictsCached'
BY DEF StorageInStep, DictsAreTheStateDiff, DictsCached, Lookup, Cached, Fetch,
       InDict

\* The part of the invariant about pending syscalls.
LEMMA PendingFrame ==
    ASSUME BlockHashAnswersStayValid, PendingHashesCached,
           UNCHANGED <<actual, ongoing_storage_changes, issued, todo>>
    PROVE  BlockHashAnswersStayValid' /\ PendingHashesCached'
BY DEF BlockHashAnswersStayValid, PendingHashesCached, HashCached, Cached

\* An aborted run keeps the invariant.
LEMMA AbortStep ==
    ASSUME IInv, NEW how \in {"untracked", "panicked"}, Abort(how)
    PROVE  IInv'
<1>1. StorageInStep' /\ DictsAreTheStateDiff' /\ DictsCached'
  BY StorageFrame DEF IInv, Abort
<1>2. BlockHashAnswersStayValid' /\ PendingHashesCached'
  BY PendingFrame DEF IInv, Abort, osVars
<1>3. TypeOK'
  BY DEF IInv, Abort, osVars, TypeOK, Statuses
<1>4. /\ HintsAgreeWithExecution' /\ UntouchedAtStart' /\ IdleAtStart'
      /\ CommitmentsMatchExecution'
  BY DEF IInv, Abort, HintsAgreeWithExecution, UntouchedAtStart, IdleAtStart,
         CommitmentsMatchExecution, InDict, osVars
<1> QED BY <1>1, <1>2, <1>3, <1>4 DEF IInv

\* The initial states satisfy the invariant.
LEMMA InitIInv == Init => IInv
<1> SUFFICES ASSUME Init PROVE IInv
  OBVIOUS
<1>1. PICK accessed \in [Tracked -> SUBSET Key] :
         ongoing_storage_changes =
             [a \in Tracked |-> [k \in accessed[a] |-> previous[a][k]]]
  <2>1. PICK accessed \in [Tracked -> IF RpcBacked THEN {{}} ELSE SUBSET Key] :
           ongoing_storage_changes =
               [a \in Tracked |-> [k \in accessed[a] |-> previous[a][k]]]
    BY DEF Init
  <2>2. accessed \in [Tracked -> SUBSET Key]
    BY <2>1
  <2> QED BY <2>1, <2>2
<1>2. /\ previous \in [Address -> [Key -> Value]]
      /\ previous[BlockHashContract][OldBlock] = Zero
      /\ actual = previous
      /\ Tracked \subseteq Address
  BY StorageAssumption DEF Init
<1>3. ASSUME NEW a \in Tracked
      PROVE  /\ ongoing_storage_changes[a] \in [accessed[a] -> Value]
             /\ accessed[a] \in SUBSET Key
             /\ \A k \in Key : Lookup(a, k) = previous[a][k]
  BY <1>1, <1>2 DEF Lookup, Cached, Fetch
<1>4. \A a \in Tracked : ongoing_storage_changes[a] \in PartialMaps(Value)
  BY <1>3 DEF PartialMaps
<1>5. \A a \in Address : squashed[a] = Empty /\ DOMAIN squashed[a] = {}
  BY DEF Init, Empty
<1>6. \A a \in Address :
         squashed[a] \in PartialMaps([first : Value, last : Value])
  <2>1. Empty \in [{} -> [first : Value, last : Value]]
    BY DEF Empty
  <2> QED BY <1>5, <2>1 DEF PartialMaps
<1>7. TypeOK
  <2>1. /\ code \in Contract \cup {None} /\ answer \in Answers \cup {None}
        /\ issued \in Seq(Op) /\ todo \in Seq(Op)
        /\ used \in 0 .. MaxSyscalls
        /\ phase \in {"start", "transactions", "end"}
        /\ status \in Statuses
    BY StorageAssumption DEF Init, Statuses
  <2>2. DOMAIN squashed = Address /\ DOMAIN ongoing_storage_changes = Tracked
    BY <1>1 DEF Init
  <2> QED BY <1>2, <1>4, <1>6, <2>1, <2>2 DEF TypeOK
<1>8. StorageInStep /\ DictsAreTheStateDiff /\ DictsCached
  BY <1>2, <1>3, <1>5
     DEF StorageInStep, DictsAreTheStateDiff, DictsCached, InDict
<1>9. BlockHashAnswersStayValid /\ PendingHashesCached
  BY DEF Init, BlockHashAnswersStayValid, PendingHashesCached
<1>10. /\ HintsAgreeWithExecution /\ UntouchedAtStart /\ IdleAtStart
       /\ CommitmentsMatchExecution
  BY <1>2, <1>5, StorageAssumption
     DEF Init, HintsAgreeWithExecution, UntouchedAtStart, IdleAtStart, InDict,
         CommitmentsMatchExecution
<1> QED BY <1>7, <1>8, <1>9, <1>10 DEF IInv

-----------------------------------------------------------------------------
\* The hash of the old block is stored before any transaction runs.
LEMMA WriteOldBlockStep == IInv /\ WriteOldBlock => IInv'
<1> SUFFICES ASSUME IInv, WriteOldBlock PROVE IInv'
  OBVIOUS
<1> DEFINE a == BlockHashContract
<1>1. CASE a \notin Tracked
  BY <1>1, AbortStep DEF WriteOldBlock
<1>2. CASE a \in Tracked
  <2>1. /\ Running("start")
        /\ ongoing_storage_changes' = Insert(a, OldBlock, OldHash)
        /\ actual' = [actual EXCEPT ![a][OldBlock] = OldHash]
        /\ DictUpdate(a, OldBlock, Zero, OldHash)
        /\ phase' = "transactions"
        /\ UNCHANGED <<previous, osVars, answer, commitments>>
    BY <1>2 DEF WriteOldBlock
  <2>2. /\ a \in Address /\ OldBlock \in Key /\ OldHash \in Value
        /\ actual \in [Address -> [Key -> Value]]
    BY StorageAssumption DEF IInv, TypeOK
  <2>3. actual[a][OldBlock] = Zero
    BY <2>1, <2>2 DEF IInv, UntouchedAtStart, DictsAreTheStateDiff, Running
  <2>4. /\ actual' \in [Address -> [Key -> Value]]
        /\ ActualSet(a, OldBlock, OldHash)
    BY <2>1, <2>2 DEF ActualSet
  <2> HIDE DEF a
  <2>5. StorageSet(a, OldBlock, OldHash)
    BY <1>2, <2>1, <2>2, InsertLemma DEF IInv
  <2>6. status' = status /\ DictsAreTheStateDiff' /\ DictSet(a, OldBlock)
    BY <2>1, <2>2, <2>3, <2>4, DictLemma DEF IInv
  <2>7. StorageInStep' /\ DictsCached'
    BY <2>4, <2>5, <2>6, StorageAssumption
       DEF IInv, StorageInStep, DictsCached, ActualSet, StorageSet, DictSet
  <2>8. TypeOK'
    BY <2>1, <2>4, <2>5, <2>6 DEF IInv, TypeOK, osVars, StorageSet, DictSet
  <2>9. issued' = <<>> /\ todo' = <<>>
    BY <2>1 DEF IInv, Running, IdleAtStart, osVars
  <2>10. BlockHashAnswersStayValid' /\ PendingHashesCached'
    BY <2>9 DEF BlockHashAnswersStayValid, PendingHashesCached
  <2>11. /\ HintsAgreeWithExecution' /\ CommitmentsMatchExecution'
         /\ UntouchedAtStart' /\ IdleAtStart'
    BY <2>1, <2>6 DEF IInv, HintsAgreeWithExecution, UntouchedAtStart,
                      CommitmentsMatchExecution, IdleAtStart, Running
  <2> QED BY <2>6, <2>7, <2>8, <2>10, <2>11 DEF IInv
<1> QED BY <1>1, <1>2

\* A block without an old block.
LEMMA NoOldBlockStep == IInv /\ NoOldBlock => IInv'
<1> SUFFICES ASSUME IInv, NoOldBlock PROVE IInv'
  OBVIOUS
<1>1. StorageInStep' /\ DictsAreTheStateDiff' /\ DictsCached'
  BY StorageFrame DEF IInv, NoOldBlock
<1>2. BlockHashAnswersStayValid' /\ PendingHashesCached'
  BY PendingFrame DEF IInv, NoOldBlock, osVars
<1>3. TypeOK'
  BY DEF IInv, NoOldBlock, osVars, TypeOK
<1>4. /\ HintsAgreeWithExecution' /\ UntouchedAtStart' /\ IdleAtStart'
      /\ CommitmentsMatchExecution'
  BY DEF IInv, NoOldBlock, Running, HintsAgreeWithExecution, UntouchedAtStart,
         IdleAtStart, CommitmentsMatchExecution
<1> QED BY <1>1, <1>2, <1>3, <1>4 DEF IInv

\* A transaction starts.
LEMMA StartCallStep ==
    ASSUME IInv, NEW a \in Contract, StartCall(a)
    PROVE  IInv'
<1>1. StorageInStep' /\ DictsAreTheStateDiff' /\ DictsCached'
  BY StorageFrame DEF IInv, StartCall
<1>2. BlockHashAnswersStayValid' /\ PendingHashesCached'
  BY PendingFrame DEF IInv, StartCall
<1>3. TypeOK'
  BY DEF IInv, StartCall, TypeOK
<1>4. /\ HintsAgreeWithExecution' /\ UntouchedAtStart' /\ IdleAtStart'
      /\ CommitmentsMatchExecution'
  BY DEF IInv, StartCall, Running, HintsAgreeWithExecution, UntouchedAtStart,
         IdleAtStart, CommitmentsMatchExecution
<1> QED BY <1>1, <1>2, <1>3, <1>4 DEF IInv

\* What every syscall made by running code leaves alone.
LEMMA IssueFrame ==
    ASSUME IInv, NEW op \in Op, Issue(op)
    PROVE  /\ issued' \in Seq(Op) /\ used' \in 0 .. MaxSyscalls
           /\ HintsAgreeWithExecution' /\ UntouchedAtStart' /\ IdleAtStart'
           /\ CommitmentsMatchExecution'
<1>1. issued' \in Seq(Op)
  BY DEF IInv, TypeOK, Issue
<1>2. used' \in 0 .. MaxSyscalls
  BY StorageAssumption DEF IInv, TypeOK, Issue
<1>3. /\ HintsAgreeWithExecution' /\ UntouchedAtStart' /\ IdleAtStart'
      /\ CommitmentsMatchExecution'
  BY DEF IInv, Issue, Running, HintsAgreeWithExecution, UntouchedAtStart,
         IdleAtStart, CommitmentsMatchExecution
<1> QED BY <1>1, <1>2, <1>3

\* A syscall answered from the recording.
LEMMA IssueStep ==
    ASSUME IInv, NEW op \in Op, op.name # "block_hash", Issue(op),
           UNCHANGED ongoing_storage_changes
    PROVE  IInv'
<1>1. /\ issued' \in Seq(Op) /\ used' \in 0 .. MaxSyscalls
      /\ HintsAgreeWithExecution' /\ UntouchedAtStart' /\ IdleAtStart'
      /\ CommitmentsMatchExecution'
  BY IssueFrame
<1>2. StorageInStep' /\ DictsAreTheStateDiff' /\ DictsCached'
  BY StorageFrame DEF IInv, Issue
<1>3. TypeOK'
  BY <1>1 DEF IInv, TypeOK, Issue
<1>4. /\ issued \in Seq(Op)
      /\ issued' = Append(issued, op)
      /\ UNCHANGED <<todo, actual, ongoing_storage_changes>>
  BY DEF IInv, TypeOK, Issue
<1>5. ASSUME NEW i \in DOMAIN issued'
      PROVE  \/ i \in DOMAIN issued /\ issued'[i] = issued[i]
             \/ issued'[i] = op
  BY <1>4
<1>6. BlockHashAnswersStayValid'
  BY <1>4, <1>5 DEF IInv, BlockHashAnswersStayValid
<1>7. PendingHashesCached'
  BY <1>4, <1>5 DEF IInv, PendingHashesCached, HashCached, Cached
<1> QED BY <1>1, <1>2, <1>3, <1>6, <1>7 DEF IInv

\* A get_block_hash syscall has a key.
LEMMA HashKey ==
    ASSUME NEW op \in Op, op.name = "block_hash"
    PROVE  op.key \in Key
BY DEF Op, ReadOp, WriteOp, CallOp, BlockHashOp

\* get_block_hash, answered from the storage while the code still runs.
LEMMA IssueBlockHashStep ==
    ASSUME IInv, NEW k \in Key, IssueBlockHash(k)
    PROVE  IInv'
<1> DEFINE a == BlockHashContract
<1>1. PICK up \in RpcAnswers :
         IF CanRead(a, k, up)
         THEN /\ Issue([name |-> "block_hash", key |-> k, value |-> Lookup(a, k)])
              /\ ongoing_storage_changes' = Remember(a, k, Lookup(a, k))
         ELSE Abort(ReadFailure(a))
  BY DEF IssueBlockHash
<1>2. CASE ~CanRead(a, k, up)
  BY <1>1, <1>2, AbortStep DEF ReadFailure
<1>3. CASE CanRead(a, k, up)
  <2>1. /\ a \in Tracked /\ a \in Address
        /\ Lookup(a, k) = actual[a][k]
        /\ Lookup(a, k) \in Value
    BY <1>3, StorageAssumption DEF IInv, CanRead, StorageInStep, TypeOK
  <2>2. PICK v \in Value : v = Lookup(a, k)
    BY <2>1
  <2>3. PICK op \in Op : op = [name |-> "block_hash", key |-> k, value |-> v]
    BY DEF Op, BlockHashOp
  <2>4. Issue(op) /\ ongoing_storage_changes' = Insert(a, k, v)
    BY <1>1, <1>3, <2>2, <2>3 DEF Remember
  <2>5. /\ issued' = Append(issued, op)
        /\ issued \in Seq(Op)
        /\ UNCHANGED <<previous, actual, code, todo, answer, squashed,
                       commitments, phase, status>>
    BY <2>4 DEF IInv, TypeOK, Issue
  <2>6. /\ issued' \in Seq(Op) /\ used' \in 0 .. MaxSyscalls
        /\ HintsAgreeWithExecution' /\ UntouchedAtStart' /\ IdleAtStart'
        /\ CommitmentsMatchExecution'
    BY <2>4, IssueFrame
  <2>7. StorageSet(a, k, v)
    BY <2>1, <2>4, <2>5, InsertLemma DEF IInv
  <2>8. StorageInStep' /\ DictsAreTheStateDiff' /\ DictsCached'
    BY <2>1, <2>2, <2>5, <2>7, StorageAssumption
       DEF IInv, StorageInStep, DictsAreTheStateDiff, DictsCached, StorageSet,
           InDict
  <2>9. TypeOK'
    BY <2>5, <2>6, <2>7 DEF IInv, TypeOK, StorageSet
  <2>10. ASSUME NEW i \in DOMAIN issued'
         PROVE  \/ i \in DOMAIN issued /\ issued'[i] = issued[i]
                \/ issued'[i] = op
    BY <2>5
  <2>11. op.key = k /\ op.value = actual'[a][k]
    BY <2>1, <2>2, <2>3, <2>5
  <2>12. BlockHashAnswersStayValid'
    BY <2>5, <2>10, <2>11 DEF IInv, BlockHashAnswersStayValid
  <2>13. \A x \in Key : Cached(a, x)' <=> Cached(a, x) \/ x = k
    BY <2>1, <2>7 DEF StorageSet
  <2>14. ASSUME NEW o \in Op, HashCached(o) PROVE HashCached(o)'
    BY <2>13, <2>14, HashKey DEF HashCached
  <2>15. HashCached(op)'
    BY <2>1, <2>11, <2>13 DEF HashCached
  <2>16. PendingHashesCached'
    <3>1. /\ \A i \in DOMAIN issued : issued[i] \in Op /\ HashCached(issued[i])
          /\ \A i \in DOMAIN todo : todo[i] \in Op /\ HashCached(todo[i])
      BY DEF IInv, TypeOK, PendingHashesCached
    <3>2. ASSUME NEW i \in DOMAIN issued'
          PROVE  HashCached(issued[i])'
      <4>1. PICK o : o = issued'[i]
        OBVIOUS
      <4>2. HashCached(o)'
        BY <2>10, <2>14, <2>15, <3>1, <4>1
      <4> QED BY <4>1, <4>2 DEF HashCached, Cached
    <3>3. ASSUME NEW i \in DOMAIN todo'
          PROVE  HashCached(todo[i])'
      <4>1. PICK o \in Op : o = todo[i] /\ o = todo'[i] /\ HashCached(o)
        BY <2>5, <3>1
      <4>2. HashCached(o)'
        BY <2>14, <4>1
      <4> QED BY <4>1, <4>2 DEF HashCached, Cached
    <3> QED BY <3>2, <3>3 DEF PendingHashesCached
  <2> QED BY <2>6, <2>8, <2>9, <2>12, <2>16 DEF IInv
<1> QED BY <1>2, <1>3

\* The code of a call ends: its syscalls come before those left to do.
LEMMA EndCodeStep == IInv /\ EndCode => IInv'
<1> SUFFICES ASSUME IInv, EndCode PROVE IInv'
  OBVIOUS
<1>1. StorageInStep' /\ DictsAreTheStateDiff' /\ DictsCached'
  BY StorageFrame DEF IInv, EndCode
<1>2. /\ issued \in Seq(Op) /\ todo \in Seq(Op)
      /\ todo' = issued \o todo /\ issued' = <<>>
      /\ UNCHANGED <<actual, ongoing_storage_changes>>
  BY DEF IInv, TypeOK, EndCode
<1>3. TypeOK'
  <2>1. todo' \in Seq(Op) /\ issued' \in Seq(Op)
    BY <1>2
  <2> QED BY <2>1 DEF IInv, TypeOK, EndCode
<1>4. ASSUME NEW i \in DOMAIN todo'
      PROVE  \/ i \in DOMAIN issued /\ todo'[i] = issued[i]
             \/ i - Len(issued) \in DOMAIN todo /\ todo'[i] = todo[i - Len(issued)]
  <2>1. /\ Len(issued) \in Nat /\ Len(todo) \in Nat
        /\ DOMAIN issued = 1 .. Len(issued) /\ DOMAIN todo = 1 .. Len(todo)
        /\ i \in 1 .. (Len(issued) + Len(todo))
    BY <1>2, ConcatProperties
  <2>2. todo'[i] = IF i <= Len(issued) THEN issued[i] ELSE todo[i - Len(issued)]
    BY <1>2, <2>1, ConcatProperties
  <2>3. CASE i <= Len(issued)
    BY <2>1, <2>2, <2>3
  <2>4. CASE ~(i <= Len(issued))
    <3>1. i - Len(issued) \in 1 .. Len(todo)
      BY <2>1, <2>4
    <3> QED BY <2>1, <2>2, <2>4, <3>1
  <2> QED BY <2>3, <2>4
<1>5. BlockHashAnswersStayValid'
  <2>1. /\ \A j \in DOMAIN issued : issued[j].name = "block_hash" =>
              issued[j].value = actual[BlockHashContract][issued[j].key]
        /\ \A j \in DOMAIN todo : todo[j].name = "block_hash" =>
              todo[j].value = actual[BlockHashContract][todo[j].key]
    BY DEF IInv, BlockHashAnswersStayValid
  <2>2. ASSUME NEW i \in DOMAIN todo', todo'[i].name = "block_hash"
        PROVE  todo'[i].value = actual'[BlockHashContract][todo'[i].key]
    BY <1>2, <1>4, <2>1, <2>2
  <2>3. DOMAIN issued' = {}
    BY <1>2
  <2> QED BY <2>2, <2>3 DEF BlockHashAnswersStayValid
<1>6. PendingHashesCached'
  BY <1>2, <1>4 DEF IInv, PendingHashesCached, HashCached, Cached
<1>7. /\ HintsAgreeWithExecution' /\ UntouchedAtStart' /\ IdleAtStart'
      /\ CommitmentsMatchExecution'
  BY DEF IInv, EndCode, Running, HintsAgreeWithExecution, UntouchedAtStart,
         IdleAtStart, CommitmentsMatchExecution
<1> QED BY <1>1, <1>3, <1>5, <1>6, <1>7 DEF IInv

-----------------------------------------------------------------------------
\* The next syscall and the ones after it.
LEMMA TodoLemma ==
    ASSUME IInv, todo # <<>>
    PROVE  /\ Head(todo) \in Op /\ Head(todo) = todo[1] /\ 1 \in DOMAIN todo
           /\ Tail(todo) \in Seq(Op)
           /\ \A i \in DOMAIN Tail(todo) :
                 i + 1 \in DOMAIN todo /\ Tail(todo)[i] = todo[i + 1]
BY DEF IInv, TypeOK

\* A storage hint sets key k of a to v in the OS's storage and in the dict;
\* the execution does the same.
LEMMA HintStep ==
    ASSUME IInv, status = "running", phase = "transactions", todo # <<>>,
           NEW a \in Tracked, a # BlockHashContract, NEW k \in Key,
           NEW prev, NEW v \in Value, prev = actual[a][k],
           ongoing_storage_changes' = Insert(a, k, v),
           answer' \in Answers,
           DictUpdate(a, k, prev, v),
           actual' \in [Address -> [Key -> Value]],
           ActualSet(a, k, v),
           OpDone
    PROVE  IInv'
<1>1. /\ a \in Address
      /\ UNCHANGED <<previous, code, issued, used, commitments, phase>>
      /\ todo' = Tail(todo)
  BY StorageAssumption DEF OpDone
<1>2. StorageSet(a, k, v)
  BY <1>1, InsertLemma DEF IInv
<1>3. status' = status /\ DictsAreTheStateDiff' /\ DictSet(a, k)
  BY <1>1, DictLemma DEF IInv
<1>4. StorageInStep' /\ DictsCached'
  BY <1>1, <1>2, <1>3, StorageAssumption
     DEF IInv, StorageInStep, DictsCached, ActualSet, StorageSet, DictSet
<1>5. TypeOK'
  BY <1>1, <1>2, <1>3, TodoLemma DEF IInv, TypeOK, StorageSet, DictSet
<1>6. /\ HintsAgreeWithExecution' /\ UntouchedAtStart' /\ IdleAtStart'
      /\ CommitmentsMatchExecution'
  BY <1>1, <1>3 DEF IInv, HintsAgreeWithExecution, UntouchedAtStart,
                    IdleAtStart, CommitmentsMatchExecution
<1>7. /\ \A x \in Key : actual'[BlockHashContract][x] = actual[BlockHashContract][x]
      /\ \A x \in Key : BlockHashContract \in Tracked =>
            (Cached(BlockHashContract, x)' <=> Cached(BlockHashContract, x))
  BY <1>2, StorageAssumption DEF ActualSet, StorageSet
<1>8. /\ \A i \in DOMAIN todo' :
            i + 1 \in DOMAIN todo /\ todo'[i] = todo[i + 1]
      /\ \A i \in DOMAIN todo : todo[i] \in Op
      /\ \A i \in DOMAIN issued : issued[i] \in Op
  BY <1>1, TodoLemma DEF IInv, TypeOK
<1>9. BlockHashAnswersStayValid'
  <2>1. ASSUME NEW i \in DOMAIN issued, issued[i].name = "block_hash"
        PROVE  issued[i].value = actual'[BlockHashContract][issued[i].key]
    <3>1. issued[i].value = actual[BlockHashContract][issued[i].key]
      BY <2>1 DEF IInv, BlockHashAnswersStayValid
    <3>2. issued[i].key \in Key
      BY <1>8, <2>1, HashKey
    <3> QED BY <1>7, <3>1, <3>2
  <2>2. ASSUME NEW i \in DOMAIN todo, todo[i].name = "block_hash"
        PROVE  todo[i].value = actual'[BlockHashContract][todo[i].key]
    <3>1. todo[i].value = actual[BlockHashContract][todo[i].key]
      BY <2>2 DEF IInv, BlockHashAnswersStayValid
    <3>2. todo[i].key \in Key
      BY <1>8, <2>2, HashKey
    <3> QED BY <1>7, <3>1, <3>2
  <2>3. ASSUME NEW i \in DOMAIN issued', issued'[i].name = "block_hash"
        PROVE  issued'[i].value = actual'[BlockHashContract][issued'[i].key]
    BY <1>1, <2>1, <2>3
  <2>4. ASSUME NEW i \in DOMAIN todo', todo'[i].name = "block_hash"
        PROVE  todo'[i].value = actual'[BlockHashContract][todo'[i].key]
    BY <1>8, <2>2, <2>4
  <2> QED
    BY <2>3, <2>4 DEF BlockHashAnswersStayValid
<1>10. ASSUME NEW o \in Op, HashCached(o) PROVE HashCached(o)'
  BY <1>7, <1>10, HashKey DEF HashCached
<1>11. PendingHashesCached'
  <2>1. ASSUME NEW i \in DOMAIN issued' PROVE HashCached(issued[i])'
    <3>1. PICK o \in Op : o = issued'[i] /\ HashCached(o)
      BY <1>1, <1>8 DEF IInv, PendingHashesCached
    <3>2. HashCached(o)'
      BY <1>10, <3>1
    <3> QED BY <3>1, <3>2 DEF HashCached, Cached
  <2>2. ASSUME NEW i \in DOMAIN todo' PROVE HashCached(todo[i])'
    <3>1. PICK o \in Op : o = todo'[i] /\ HashCached(o)
      BY <1>8 DEF IInv, PendingHashesCached
    <3>2. HashCached(o)'
      BY <1>10, <3>1
    <3> QED BY <3>1, <3>2 DEF HashCached, Cached
  <2> QED BY <2>1, <2>2 DEF PendingHashesCached
<1> QED BY <1>3, <1>4, <1>5, <1>6, <1>9, <1>11 DEF IInv

\* A storage read the OS executes.
LEMMA ExecuteReadStep == IInv /\ ExecuteRead => IInv'
<1> SUFFICES ASSUME IInv, ExecuteRead PROVE IInv'
  OBVIOUS
<1>1. PICK a \in Contract, k \in Key :
         a = Head(todo).contract /\ k = Head(todo).key
  BY TodoLemma
     DEF ExecuteRead, NextOp, Op, ReadOp, WriteOp, CallOp, BlockHashOp
<1>2. /\ status = "running" /\ phase = "transactions" /\ todo # <<>>
      /\ \E up \in RpcAnswers :
            IF ~CanRead(a, k, up) THEN Abort(ReadFailure(a))
            ELSE IF Lookup(a, k) # actual[a][k] THEN Abort("inconsistent")
            ELSE /\ ongoing_storage_changes' = Remember(a, k, Lookup(a, k))
                 /\ answer' = Answer("read", a, k, Lookup(a, k), Lookup(a, k))
                 /\ DictUpdate(a, k, Lookup(a, k), Lookup(a, k))
                 /\ UNCHANGED actual
                 /\ OpDone
  BY <1>1 DEF ExecuteRead, NextOp, Running
<1>3. PICK up \in RpcAnswers :
            IF ~CanRead(a, k, up) THEN Abort(ReadFailure(a))
            ELSE IF Lookup(a, k) # actual[a][k] THEN Abort("inconsistent")
            ELSE /\ ongoing_storage_changes' = Remember(a, k, Lookup(a, k))
                 /\ answer' = Answer("read", a, k, Lookup(a, k), Lookup(a, k))
                 /\ DictUpdate(a, k, Lookup(a, k), Lookup(a, k))
                 /\ UNCHANGED actual
                 /\ OpDone
  BY <1>2
<1>4. CASE ~CanRead(a, k, up)
  BY <1>3, <1>4, AbortStep DEF ReadFailure
<1>5. CASE CanRead(a, k, up)
  <2>1. /\ a \in Tracked /\ a \in Address /\ a # BlockHashContract
        /\ Lookup(a, k) = actual[a][k]
        /\ actual \in [Address -> [Key -> Value]]
    BY <1>5, StorageAssumption
       DEF IInv, CanRead, StorageInStep, TypeOK, Contract
  <2>2. PICK v \in Value : v = Lookup(a, k)
    BY <2>1
  <2>3. /\ ongoing_storage_changes' = Insert(a, k, v)
        /\ answer' = Answer("read", a, k, v, v)
        /\ DictUpdate(a, k, v, v)
        /\ actual' = actual
        /\ OpDone
    BY <1>3, <1>5, <2>1, <2>2 DEF Remember
  <2>4. ActualSet(a, k, v)
    BY <2>1, <2>2, <2>3 DEF ActualSet
  <2>5. answer' \in Answers
    BY <2>1, <2>3 DEF Answer, Answers
  <2>6. v = actual[a][k] /\ actual' \in [Address -> [Key -> Value]]
    BY <2>1, <2>2, <2>3
  <2> QED BY <1>2, <2>1, <2>3, <2>4, <2>5, <2>6, HintStep
<1> QED BY <1>4, <1>5

\* A storage write the OS executes.
LEMMA ExecuteWriteStep == IInv /\ ExecuteWrite => IInv'
<1> SUFFICES ASSUME IInv, ExecuteWrite PROVE IInv'
  OBVIOUS
<1>1. PICK a \in Contract, k \in Key, v \in Value :
         /\ a = Head(todo).contract /\ k = Head(todo).key
         /\ v = Head(todo).value
  BY TodoLemma
     DEF ExecuteWrite, NextOp, Op, ReadOp, WriteOp, CallOp, BlockHashOp
<1>2. /\ status = "running" /\ phase = "transactions" /\ todo # <<>>
      /\ \E up \in RpcAnswers :
            IF ~CanRead(a, k, up) THEN Abort(ReadFailure(a))
            ELSE /\ ongoing_storage_changes' = Insert(a, k, v)
                 /\ answer' = Answer("write", a, k, Lookup(a, k), v)
                 /\ DictUpdate(a, k, Lookup(a, k), v)
                 /\ actual' = [actual EXCEPT ![a][k] = v]
                 /\ OpDone
  BY <1>1 DEF ExecuteWrite, NextOp, Running, PrevValue
<1>3. PICK up \in RpcAnswers :
            IF ~CanRead(a, k, up) THEN Abort(ReadFailure(a))
            ELSE /\ ongoing_storage_changes' = Insert(a, k, v)
                 /\ answer' = Answer("write", a, k, Lookup(a, k), v)
                 /\ DictUpdate(a, k, Lookup(a, k), v)
                 /\ actual' = [actual EXCEPT ![a][k] = v]
                 /\ OpDone
  BY <1>2
<1>4. CASE ~CanRead(a, k, up)
  BY <1>3, <1>4, AbortStep DEF ReadFailure
<1>5. CASE CanRead(a, k, up)
  <2>1. /\ a \in Tracked /\ a \in Address /\ a # BlockHashContract
        /\ Lookup(a, k) = actual[a][k]
        /\ actual \in [Address -> [Key -> Value]]
    BY <1>5, StorageAssumption
       DEF IInv, CanRead, StorageInStep, TypeOK, Contract
  <2>2. PICK prev \in Value : prev = Lookup(a, k)
    BY <2>1
  <2>3. /\ ongoing_storage_changes' = Insert(a, k, v)
        /\ answer' = Answer("write", a, k, prev, v)
        /\ DictUpdate(a, k, prev, v)
        /\ actual' = [actual EXCEPT ![a][k] = v]
        /\ OpDone
    BY <1>3, <1>5, <2>1, <2>2
  <2>4. ActualSet(a, k, v) /\ actual' \in [Address -> [Key -> Value]]
    BY <2>1, <2>3 DEF ActualSet
  <2>5. answer' \in Answers
    BY <2>1, <2>3 DEF Answer, Answers
  <2>6. prev = actual[a][k]
    BY <2>1, <2>2
  <2> QED BY <1>2, <2>1, <2>3, <2>4, <2>5, <2>6, HintStep
<1> QED BY <1>4, <1>5

\* A call the OS executes.
LEMMA ExecuteCallStep == IInv /\ ExecuteCall => IInv'
<1> SUFFICES ASSUME IInv, ExecuteCall PROVE IInv'
  OBVIOUS
<1>1. /\ todo # <<>> /\ todo' = Tail(todo) /\ phase = "transactions"
      /\ UNCHANGED <<ongoing_storage_changes, actual, issued>>
  BY DEF ExecuteCall, NextOp, Running
<1>2. Head(todo).contract \in Contract
  BY <1>1, TodoLemma
     DEF ExecuteCall, NextOp, Op, ReadOp, WriteOp, CallOp, BlockHashOp
<1>3. StorageInStep' /\ DictsAreTheStateDiff' /\ DictsCached'
  BY StorageFrame DEF IInv, ExecuteCall
<1>4. TypeOK'
  BY <1>1, <1>2, TodoLemma DEF IInv, TypeOK, ExecuteCall
<1>5. \A i \in DOMAIN todo' : i + 1 \in DOMAIN todo /\ todo'[i] = todo[i + 1]
  BY <1>1, TodoLemma
<1>6. BlockHashAnswersStayValid'
  BY <1>1, <1>5 DEF IInv, BlockHashAnswersStayValid
<1>7. PendingHashesCached'
  BY <1>1, <1>5 DEF IInv, PendingHashesCached, HashCached, Cached
<1>8. /\ HintsAgreeWithExecution' /\ UntouchedAtStart' /\ IdleAtStart'
      /\ CommitmentsMatchExecution'
  BY <1>1 DEF IInv, ExecuteCall, HintsAgreeWithExecution, UntouchedAtStart,
              IdleAtStart, CommitmentsMatchExecution
<1> QED BY <1>3, <1>4, <1>6, <1>7, <1>8 DEF IInv

\* A get_block_hash the OS executes: the answer the code got earlier enters
\* the dict of the block hash contract.
LEMMA ExecuteBlockHashStep == IInv /\ ExecuteBlockHash => IInv'
<1> SUFFICES ASSUME IInv, ExecuteBlockHash PROVE IInv'
  OBVIOUS
<1> DEFINE a == BlockHashContract
<1>1. /\ status = "running" /\ phase = "transactions" /\ todo # <<>>
      /\ Head(todo).name = "block_hash"
      /\ DictUpdate(a, Head(todo).key, Head(todo).value, Head(todo).value)
      /\ todo' = Tail(todo)
      /\ UNCHANGED <<previous, code, issued, used, commitments, phase,
                     ongoing_storage_changes, actual, answer>>
  BY DEF ExecuteBlockHash, NextOp, Running, OpDone
<1>2. PICK k \in Key, v \in Value :
         /\ k = Head(todo).key /\ v = Head(todo).value
         /\ v = actual[a][k] /\ a \in Tracked /\ Cached(a, k)
  <2>1. Head(todo).key \in Key /\ Head(todo).value \in Value
    BY <1>1, TodoLemma DEF Op, ReadOp, WriteOp, CallOp, BlockHashOp
  <2>2. Head(todo).value = actual[a][Head(todo).key]
    BY <1>1, TodoLemma DEF IInv, BlockHashAnswersStayValid
  <2>3. HashCached(Head(todo))
    BY <1>1, TodoLemma DEF IInv, PendingHashesCached
  <2> QED BY <1>1, <2>1, <2>2, <2>3 DEF HashCached
<1>3. a \in Address /\ DictUpdate(a, k, v, v)
  BY <1>1, <1>2, StorageAssumption
<1>4. ActualSet(a, k, v)
  BY <1>1, <1>2 DEF ActualSet
<1>5. status' = status /\ DictsAreTheStateDiff' /\ DictSet(a, k)
  BY <1>1, <1>2, <1>3, <1>4, DictLemma DEF IInv
<1>6. StorageInStep'
  BY <1>1 DEF IInv, StorageInStep, Lookup, Cached, Fetch
<1>7. DictsCached'
  BY <1>1, <1>2, <1>5, StorageAssumption DEF IInv, DictsCached, DictSet, Cached
<1>8. TypeOK'
  BY <1>1, <1>5, TodoLemma DEF IInv, TypeOK, DictSet
<1>9. \A i \in DOMAIN todo' : i + 1 \in DOMAIN todo /\ todo'[i] = todo[i + 1]
  BY <1>1, TodoLemma
<1>10. BlockHashAnswersStayValid'
  BY <1>1, <1>9 DEF IInv, BlockHashAnswersStayValid
<1>11. PendingHashesCached'
  BY <1>1, <1>9 DEF IInv, PendingHashesCached, HashCached, Cached
<1>12. /\ HintsAgreeWithExecution' /\ UntouchedAtStart' /\ IdleAtStart'
       /\ CommitmentsMatchExecution'
  BY <1>1, <1>5 DEF IInv, HintsAgreeWithExecution, UntouchedAtStart,
                    IdleAtStart, CommitmentsMatchExecution
<1> QED BY <1>5, <1>6, <1>7, <1>8, <1>10, <1>11, <1>12 DEF IInv

-----------------------------------------------------------------------------
\* The commitments are computed from the final storage.
LEMMA CommitStep ==
    ASSUME IInv, NEW roots \in [Tracked -> [Key -> Value]],
           compute_storage_commitments(roots)
    PROVE  IInv'
<1>1. /\ status = "running" /\ phase = "transactions"
      /\ phase' = "end"
      /\ UNCHANGED <<previous, ongoing_storage_changes, actual, osVars, answer,
                     squashed>>
  BY DEF compute_storage_commitments, Running
<1>2. StorageInStep' /\ DictsAreTheStateDiff' /\ DictsCached'
  BY <1>1, StorageFrame DEF IInv
<1>3. BlockHashAnswersStayValid' /\ PendingHashesCached'
  BY <1>1, PendingFrame DEF IInv, osVars
<1>4. UntouchedAtStart' /\ IdleAtStart'
  BY <1>1 DEF UntouchedAtStart, IdleAtStart
<1>5. ASSUME NEW a \in Tracked
      PROVE  UpdatedTree(a) = actual[a]
  BY StorageAssumption DEF IInv, TypeOK, StorageInStep, UpdatedTree
<1>6. ASSUME NEW a \in Tracked
      PROVE  DOMAIN squashed[a] \subseteq DOMAIN ongoing_storage_changes[a]
  <2>1. DOMAIN squashed[a] \subseteq Key
    BY StorageAssumption DEF IInv, TypeOK, PartialMaps
  <2> QED BY <2>1 DEF IInv, DictsCached, InDict, Cached
<1>7. CASE \A a \in Tracked : RootMatches(a, roots[a])
  <2>1. /\ commitments' = [a \in Tracked |->
              [updated_root |-> roots[a],
               modified |-> DOMAIN ongoing_storage_changes[a]]]
        /\ status' = "committed"
    BY <1>7 DEF compute_storage_commitments
  <2>2. ASSUME NEW a \in Tracked
        PROVE  /\ ~RpcBacked => commitments'[a].updated_root = actual'[a]
               /\ DOMAIN squashed'[a] \subseteq commitments'[a].modified
    BY <1>1, <1>5, <1>6, <1>7, <2>1 DEF RootMatches
  <2>3. CommitmentsMatchExecution'
    BY <2>1, <2>2 DEF CommitmentsMatchExecution
  <2>4. TypeOK' /\ HintsAgreeWithExecution'
    BY <1>1, <2>1
       DEF IInv, TypeOK, osVars, Statuses, HintsAgreeWithExecution
  <2> QED BY <1>2, <1>3, <1>4, <2>3, <2>4 DEF IInv
<1>8. CASE ~(\A a \in Tracked : RootMatches(a, roots[a]))
  <2>1. PICK a \in Tracked :
           /\ ~RootMatches(a, roots[a])
           /\ commitments' = [contract |-> a, actual_root |-> UpdatedTree(a),
                              expected_root |-> roots[a]]
           /\ status' = "root_mismatch"
    BY <1>8 DEF compute_storage_commitments
  <2>2. /\ commitments'.contract = a
        /\ commitments'.expected_root = roots[a]
        /\ actual'[a] # roots[a]
    BY <1>1, <1>5, <2>1 DEF RootMatches
  <2>3. CommitmentsMatchExecution'
    BY <2>1, <2>2 DEF CommitmentsMatchExecution
  <2>4. TypeOK' /\ HintsAgreeWithExecution'
    BY <1>1, <2>1
       DEF IInv, TypeOK, osVars, Statuses, HintsAgreeWithExecution
  <2> QED BY <1>2, <1>3, <1>4, <2>3, <2>4 DEF IInv
<1> QED BY <1>7, <1>8

\* Every step keeps the invariant.
LEMMA NextIInv == IInv /\ [Next]_vars => IInv'
<1> SUFFICES ASSUME IInv, [Next]_vars PROVE IInv'
  OBVIOUS
<1>1. CASE WriteOldBlock \/ NoOldBlock
  BY <1>1, WriteOldBlockStep, NoOldBlockStep
<1>2. ASSUME NEW a \in Contract, StartCall(a) PROVE IInv'
  BY <1>2, StartCallStep
<1>3. ASSUME NEW a \in Contract, IssueCall(a) PROVE IInv'
  <2>1. PICK op \in Op : op = [name |-> "call", contract |-> a]
    BY DEF Op, CallOp
  <2> QED BY <1>3, <2>1, IssueStep DEF IssueCall
<1>4. ASSUME NEW k \in Key, IssueRead(k) PROVE IInv'
  <2>1. code \in Contract
    BY <1>4 DEF IInv, TypeOK, IssueRead, Issue
  <2>2. PICK op \in Op : op = [name |-> "read", contract |-> code, key |-> k]
    BY <2>1 DEF Op, ReadOp
  <2> QED BY <1>4, <2>2, IssueStep DEF IssueRead
<1>5. ASSUME NEW k \in Key, IssueBlockHash(k) PROVE IInv'
  BY <1>5, IssueBlockHashStep
<1>6. ASSUME NEW k \in Key, NEW v \in Value, IssueWrite(k, v) PROVE IInv'
  <2>1. code \in Contract
    BY <1>6 DEF IInv, TypeOK, IssueWrite, Issue
  <2>2. PICK op \in Op :
           op = [name |-> "write", contract |-> code, key |-> k, value |-> v]
    BY <2>1 DEF Op, WriteOp
  <2> QED BY <1>6, <2>2, IssueStep DEF IssueWrite
<1>7. CASE EndCode \/ ExecuteRead \/ ExecuteWrite \/ ExecuteCall \/ ExecuteBlockHash
  BY <1>7, EndCodeStep, ExecuteReadStep, ExecuteWriteStep, ExecuteCallStep,
     ExecuteBlockHashStep
<1>8. ASSUME NEW roots \in [Tracked -> [Key -> Value]],
             compute_storage_commitments(roots)
      PROVE  IInv'
  BY <1>8, CommitStep
<1>9. CASE UNCHANGED vars
  <2>1. StorageInStep' /\ DictsAreTheStateDiff' /\ DictsCached'
    BY <1>9, StorageFrame DEF IInv, vars
  <2>2. BlockHashAnswersStayValid' /\ PendingHashesCached'
    BY <1>9, PendingFrame DEF IInv, vars, osVars
  <2>3. TypeOK'
    BY <1>9 DEF IInv, vars, osVars, TypeOK
  <2>4. /\ HintsAgreeWithExecution' /\ UntouchedAtStart' /\ IdleAtStart'
        /\ CommitmentsMatchExecution'
    BY <1>9 DEF IInv, vars, osVars, HintsAgreeWithExecution, UntouchedAtStart,
                IdleAtStart, CommitmentsMatchExecution, InDict
  <2> QED BY <2>1, <2>2, <2>3, <2>4 DEF IInv
<1> QED
  BY <1>1, <1>2, <1>3, <1>4, <1>5, <1>6, <1>7, <1>8, <1>9 DEF Next

(***************************************************************************)
(* The inductive invariant holds in every reachable state.                 *)
(***************************************************************************)
THEOREM StorageInvariant == Spec => []IInv
BY InitIInv, NextIInv, PTL DEF Spec

\* The variables keep their types.
THEOREM StorageTypeCorrect == Spec => []TypeOK
<1>1. IInv => TypeOK
  BY DEF IInv
<1> QED BY <1>1, StorageInvariant, PTL

\* No hint contradicts the recorded execution, whatever the block does and
\* whichever keys were prefetched (cache_contract_storage and the dicts).
THEOREM HintsAlwaysAgree == Spec => []HintsAgreeWithExecution
<1>1. IInv => HintsAgreeWithExecution
  BY DEF IInv
<1> QED BY <1>1, StorageInvariant, PTL

\* The dicts are the exact state diff of every contract.
THEOREM DictsAlwaysTheStateDiff == Spec => []DictsAreTheStateDiff
<1>1. IInv => DictsAreTheStateDiff
  BY DEF IInv
<1> QED BY <1>1, StorageInvariant, PTL

\* Reading the block hash contract while code runs is sound, as the comment
\* in GetBlockHashHandler claims.
THEOREM BlockHashReadsAreSound == Spec => []BlockHashAnswersStayValid
<1>1. IInv => BlockHashAnswersStayValid
  BY DEF IInv
<1> QED BY <1>1, StorageInvariant, PTL

\* A commitment is to the final storage and covers every accessed key.
THEOREM CommitmentsAreSound == Spec => []CommitmentsMatchExecution
<1>1. IInv => CommitmentsMatchExecution
  BY DEF IInv
<1> QED BY <1>1, StorageInvariant, PTL

-----------------------------------------------------------------------------
(***************************************************************************)
(* Refinement: the storages behind their caches are plain maps.            *)
(***************************************************************************)
\* Setting one key in the storage is setting it in the map.
LEMMA StoreSet ==
    ASSUME NEW a \in Tracked, NEW k \in Key, NEW v \in Value,
           StorageSet(a, k, v)
    PROVE  Store' = [Store EXCEPT ![a][k] = v]
BY DEF Store, StorageSet

\* A step that leaves tree and cache alone leaves the map alone.
LEMMA StoreFrame ==
    ASSUME UNCHANGED <<previous, ongoing_storage_changes>>
    PROVE  Store' = Store
BY DEF Store, Lookup, Cached, Fetch

\* Storing a value that is there already leaves the map alone.
LEMMA StoreSame ==
    ASSUME NEW a \in Tracked, NEW k \in Key, NEW v \in Value,
           v = Lookup(a, k), StorageSet(a, k, v)
    PROVE  Store' = Store
BY DEF Store, StorageSet

\* Every step of the storage is a step of the map or none.
LEMMA MapStep ==
    ASSUME IInv, [Next]_vars
    PROVE  [Map!Next]_<<Store, answer>>
<1> USE DEF IInv
<1>1. ASSUME NEW how, Abort(how) PROVE UNCHANGED <<Store, answer>>
  BY <1>1, StoreFrame DEF Abort
<1>2. CASE WriteOldBlock
  <2>1. CASE BlockHashContract \notin Tracked
    BY <1>1, <1>2, <2>1 DEF WriteOldBlock
  <2>2. CASE BlockHashContract \in Tracked
    <3>1. /\ ongoing_storage_changes' = Insert(BlockHashContract, OldBlock, OldHash)
          /\ previous' = previous /\ answer' = answer
      BY <1>2, <2>2 DEF WriteOldBlock
    <3>2. StorageSet(BlockHashContract, OldBlock, OldHash)
      BY <2>2, <3>1, InsertLemma, StorageAssumption
    <3>3. Map!Overwrite(BlockHashContract, OldBlock, OldHash)
      BY <2>2, <3>1, <3>2, StoreSet, StorageAssumption DEF Map!Overwrite
    <3> QED BY <2>2, <3>3, StorageAssumption DEF Map!Next
  <2> QED BY <2>1, <2>2
<1>3. ASSUME NEW k \in Key, IssueBlockHash(k)
      PROVE  UNCHANGED <<Store, answer>>
  <2> DEFINE a == BlockHashContract
  <2>1. PICK up \in RpcAnswers :
           IF CanRead(a, k, up)
           THEN /\ answer' = answer /\ previous' = previous
                /\ ongoing_storage_changes' = Insert(a, k, Lookup(a, k))
           ELSE Abort(ReadFailure(a))
    BY <1>3 DEF IssueBlockHash, Issue, Remember
  <2>2. CASE ~CanRead(a, k, up)
    BY <1>1, <2>1, <2>2
  <2>3. CASE CanRead(a, k, up)
    <3>1. PICK v \in Value : v = Lookup(a, k) /\ a \in Tracked
      BY <2>3, StorageAssumption DEF CanRead, StorageInStep, TypeOK
    <3>2. StorageSet(a, k, v)
      BY <2>1, <2>3, <3>1, InsertLemma
    <3> QED BY <2>1, <2>3, <3>1, <3>2, StoreSame
  <2> QED BY <2>2, <2>3
<1>4. CASE ExecuteRead
  <2>1. PICK a \in Contract, k \in Key :
           a = Head(todo).contract /\ k = Head(todo).key
    BY <1>4, TodoLemma
       DEF ExecuteRead, NextOp, Op, ReadOp, WriteOp, CallOp, BlockHashOp
  <2>2. PICK up \in RpcAnswers :
           \/ \E how : Abort(how)
           \/ /\ CanRead(a, k, up)
              /\ ongoing_storage_changes' = Insert(a, k, Lookup(a, k))
              /\ answer' = Answer("read", a, k, Lookup(a, k), Lookup(a, k))
              /\ previous' = previous
    BY <1>4, <2>1 DEF ExecuteRead, Remember, OpDone
  <2>3. CASE \E how : Abort(how)
    BY <1>1, <2>3
  <2>4. CASE ~(\E how : Abort(how))
    <3>1. PICK v \in Value : v = Lookup(a, k) /\ a \in Tracked
      BY <2>2, <2>4, StorageAssumption DEF CanRead, StorageInStep, TypeOK
    <3>2. StorageSet(a, k, v)
      BY <2>2, <2>4, <3>1, InsertLemma
    <3>3. Store' = Store
      BY <3>1, <3>2, StoreSame
    <3>4. Store[a][k] = v
      BY <3>1 DEF Store
    <3>5. Map!Read(a, k)
      BY <2>2, <2>4, <3>1, <3>3, <3>4 DEF Map!Read, Answer
    <3> QED BY <3>1, <3>5 DEF Map!Next
  <2> QED BY <2>3, <2>4
<1>5. CASE ExecuteWrite
  <2>1. PICK a \in Contract, k \in Key, v \in Value :
           /\ a = Head(todo).contract /\ k = Head(todo).key
           /\ v = Head(todo).value
    BY <1>5, TodoLemma
       DEF ExecuteWrite, NextOp, Op, ReadOp, WriteOp, CallOp, BlockHashOp
  <2>2. PICK up \in RpcAnswers :
           \/ \E how : Abort(how)
           \/ /\ CanRead(a, k, up)
              /\ ongoing_storage_changes' = Insert(a, k, v)
              /\ answer' = Answer("write", a, k, Lookup(a, k), v)
              /\ previous' = previous
    BY <1>5, <2>1 DEF ExecuteWrite, PrevValue, OpDone
  <2>3. CASE \E how : Abort(how)
    BY <1>1, <2>3
  <2>4. CASE ~(\E how : Abort(how))
    <3>1. a \in Tracked
      BY <2>2, <2>4 DEF CanRead
    <3>2. StorageSet(a, k, v)
      BY <2>2, <2>4, <3>1, InsertLemma
    <3>3. Store' = [Store EXCEPT ![a][k] = v]
      BY <3>1, <3>2, StoreSet
    <3>4. Store[a][k] = Lookup(a, k)
      BY <3>1 DEF Store
    <3>5. Map!Write(a, k, v)
      BY <2>2, <2>4, <3>3, <3>4 DEF Map!Write, Answer
    <3> QED BY <3>1, <3>5 DEF Map!Next
  <2> QED BY <2>3, <2>4
<1>6. CASE \/ NoOldBlock \/ EndCode \/ ExecuteCall \/ ExecuteBlockHash
           \/ \E a \in Contract : StartCall(a) \/ IssueCall(a)
           \/ \E k \in Key : IssueRead(k) \/ \E v \in Value : IssueWrite(k, v)
           \/ \E roots \in [Tracked -> [Key -> Value]] :
                 compute_storage_commitments(roots)
           \/ UNCHANGED vars
  <2>1. UNCHANGED <<previous, ongoing_storage_changes, answer>>
    BY <1>6 DEF NoOldBlock, EndCode, ExecuteCall, ExecuteBlockHash, OpDone,
                StartCall, IssueCall, IssueRead, IssueWrite, Issue,
                compute_storage_commitments, vars
  <2> QED BY <2>1, StoreFrame
<1> QED BY <1>2, <1>3, <1>4, <1>5, <1>6 DEF Next

(***************************************************************************)
(* Prefetching, caching and remote reads are invisible to the OS: the      *)
(* storages implement a plain map per contract.                            *)
(***************************************************************************)
THEOREM StorageImplementsMap == Spec => ImplementsMap
<1>1. Init => Map!Init
  <2> SUFFICES ASSUME Init PROVE Map!Init
    OBVIOUS
  <2>1. StorageInStep /\ TypeOK
    BY InitIInv DEF IInv
  <2>2. Store \in [Tracked -> [Key -> Value]]
    BY <2>1, StorageAssumption DEF Store, StorageInStep, TypeOK
  <2> QED BY <2>2 DEF Init, Map!Init
<1>2. IInv /\ [Next]_vars => [Map!Next]_<<Store, answer>>
  BY MapStep
<1> QED BY <1>1, <1>2, StorageInvariant, PTL DEF Spec, ImplementsMap, Map!Spec
=============================================================================
