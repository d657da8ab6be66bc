----------------------------- MODULE ProveBlock -----------------------------
(***************************************************************************)
(* prove_block: from a block of the chain to the inputs of the OS, and the *)
(* run of the OS on them.                                                  *)
(*                                                                         *)
(* A block is sequenced first (the network, not this program): its         *)
(* transactions declare classes, deploy contracts, replace their classes   *)
(* and call each other.  prove_block then sees the block through the RPC   *)
(* node only: the transactions, their traces, and the class of a contract  *)
(* before and after the block, never in between.  From these it collects   *)
(* every class the OS will run, and the dictionaries the OS starts from.   *)
(* The OS replays the block step by step and stops at the first class,     *)
(* field or answer that is not there.                                      *)
(*                                                                         *)
(* Compilation is abstracted to Casm(k), the compiled class of k, whose    *)
(* hash is the one the network has recorded.                               *)
(***************************************************************************)
EXTENDS Transactions, FiniteSets

CONSTANTS
    Contract,        \* the contracts of the network
    FeeToken,        \* the contract that takes the fees
    Sierra,          \* Cairo 1 classes
    Legacy,          \* Cairo 0 classes
    WithConstructor, \* the classes that have a constructor
    OldClasses,      \* the classes declared before the block
    NewContracts,    \* the contracts that are not deployed before the block
    MaxTxs,          \* the longest block with transactions of every kind
    MaxLong,         \* the longest block
    LongKinds        \* the kinds of transactions in blocks longer than MaxTxs

Class == Sierra \cup Legacy
NoClass == "0"
BlockHashContract == "0x1"

ASSUME ProveBlockAssumption ==
    /\ FeeToken \in Contract
    /\ BlockHashContract \notin Contract
    /\ Sierra \cap Legacy = {}
    /\ NoClass \notin Class
    /\ WithConstructor \subseteq Class
    /\ OldClasses \subseteq Class
    /\ NewContracts \subseteq Contract \ {FeeToken}
    /\ MaxTxs \in Nat /\ MaxLong \in Nat /\ MaxTxs <= MaxLong
    /\ LongKinds \subseteq Kinds

VARIABLES
    \* the network
    prevClass,  \* the class of every contract before the block
    class,      \* ... and now, NoClass before its deployment
    declared,   \* the classes declared so far
    block,      \* the transactions of the block, with their traces
    \* prove_block
    phase,
    transactions,                      \* Vec<InternalTransaction>
    accessed_addresses, accessed_classes, declared_classes,  \* still to visit
    class_hash_to_compiled_class_hash, compiled_classes,
    deprecated_compiled_classes, declared_class_hash_component_hashes,
    txs,                               \* the transactions of blockifier
    tx_execution_infos,
    contracts,                         \* class hashes before the block
    contract_address_to_class_hash,
    \* the OS
    tx,         \* the transaction in scope
    tx_execution_info,
    next,       \* how many transactions were loaded
    step,       \* the next step of the transaction in scope
    osClass,    \* the dictionary of contracts
    osCompiled, \* the dictionary of classes
    outcome     \* why the run stopped, or "ok"

network == <<prevClass, class, declared, block>>
toVisit == <<accessed_addresses, accessed_classes, declared_classes>>
compiled == <<class_hash_to_compiled_class_hash, compiled_classes,
              deprecated_compiled_classes>>
replay == <<txs, tx_execution_infos, contracts, contract_address_to_class_hash>>
inputs == <<transactions, toVisit, compiled, declared_class_hash_component_hashes,
            replay>>
os == <<tx, tx_execution_info, next, step, osClass, osCompiled>>
vars == <<network, phase, inputs, os, outcome>>

Casm(k) == <<"casm", k>>
EmptyMap == [k \in {} |-> Zero]

Stop(reason) == phase' = "stopped" /\ outcome' = reason

(***************************************************************************)
(* The network sequences the block.                                        *)
(***************************************************************************)

Deployed == {c \in Contract : class[c] # NoClass}

\* A step of the execution: the part of the trace it belongs to, what it
\* does, to which contract, with which class, from the code of which class.
Step(part, op, c, k, caller) ==
    [part |-> part, op |-> op, contract |-> c, class |-> k, caller |-> caller]
Call(part, c) == Step(part, "call", c, class[c], class[c])

\* The only thing an entry point of s does besides calling no one.
InnerSteps(s) ==
    {<<>>} \cup
    {<<Step("execute", "call", c, class[c], class[s])>> : c \in Deployed \ {s}} \cup
    {<<Step("execute", "library", s, k, class[s])>> : k \in declared \ {class[s]}} \cup
    {<<Step("execute", "deploy", c, k, class[s])>> :
        c \in Contract \ Deployed, k \in declared} \cup
    {<<Step("execute", "replace", s, k, class[s])>> : k \in declared \ {class[s]}}

Fee == <<Call("fee", FeeToken)>>

\* The effect of the steps on the classes of the contracts.
After(steps) ==
    [c \in Contract |->
        LET changes == {i \in DOMAIN steps : /\ steps[i].op \in {"deploy", "replace"}
                                             /\ steps[i].contract = c}
        IN  IF changes = {} THEN class[c]
            ELSE steps[CHOOSE i \in changes : \A j \in changes : j <= i].class]

NoGas == [l1_gas |-> 0, l1_data_gas |-> 0]

Sequence(type, version, steps, reverted, gas) ==
    /\ phase = "sequence"
    /\ Len(block) < MaxLong
    /\ Len(block) >= MaxTxs =>
         /\ <<type, version>> \in LongKinds
         /\ \A i \in DOMAIN block : <<block[i].type, block[i].version>> \in LongKinds
    /\ block' = Append(block, [type |-> type, version |-> version,
                               id |-> Len(block) + 1, steps |-> steps,
                               reverted |-> reverted, gas |-> gas])
    /\ class' = After(steps)
    /\ declared' = declared \cup {steps[i].class : i \in {j \in DOMAIN steps :
                                                      steps[j].op = "declare"}}
    /\ UNCHANGED <<prevClass, phase, inputs, os, outcome>>

SequenceInvoke ==
    \E v \in {0, 1, 3}, s \in Deployed \ {FeeToken} :
        \/ \E inner \in InnerSteps(s) :
              Sequence("INVOKE_FUNCTION", v,
                  <<Call("validate", s), Call("execute", s)>> \o inner \o Fee,
                  FALSE, NoGas)
        \* The steps of a reverted call are undone, and not in its trace.
        \/ Sequence("INVOKE_FUNCTION", v, <<Call("validate", s)>> \o Fee, TRUE, NoGas)

SequenceL1Handler ==
    \E s \in Deployed \ {FeeToken},
       gas \in {NoGas, [NoGas EXCEPT !.l1_gas = 1], [NoGas EXCEPT !.l1_data_gas = 1]} :
        \E inner \in InnerSteps(s) :
            Sequence("L1_HANDLER", 0, <<Call("execute", s)>> \o inner, FALSE, gas)

SequenceDeclare ==
    \E v \in 0..3, s \in Deployed \ {FeeToken}, k \in Class \ declared :
        /\ k \in Sierra <=> v >= 2
        /\ Sequence("DECLARE", v,
               <<Call("validate", s)>> \o Fee
                   \o <<Step("declare", "declare", s, k, class[s])>>,
               FALSE, NoGas)

SequenceDeployAccount ==
    \E v \in {1, 3}, c \in Contract \ Deployed, k \in declared :
        Sequence("DEPLOY_ACCOUNT", v,
            <<Step("constructor", "deploy", c, k, NoClass),
              Step("validate", "call", c, k, k)>> \o Fee,
            FALSE, NoGas)

SequenceDeploy == Sequence("DEPLOY", 0, <<>>, FALSE, NoGas)

Seal ==
    /\ phase = "sequence" /\ block # <<>>
    /\ phase' = "convert"
    /\ UNCHANGED <<network, inputs, os, outcome>>

(***************************************************************************)
(* prove_block, step 1: the transactions, and the classes they run.        *)
(***************************************************************************)

\* The invocations of one part of the trace, the nested calls included.
process_function_invocations(t, part) ==
    {[contract |-> t.steps[i].contract, class |-> t.steps[i].class] :
        i \in {j \in DOMAIN t.steps : /\ t.steps[j].part = part
                                       /\ t.steps[j].op # "replace"}}

\* The parts of the trace that are visited.
VisitedParts(t) ==
    IF t.type = "INVOKE_FUNCTION"
    THEN {"validate", "fee"} \cup (IF t.reverted THEN {} ELSE {"execute"})
    ELSE IF t.type = "DECLARE" THEN {"validate", "fee"}
    ELSE IF t.type = "L1_HANDLER" THEN {"execute"}
    ELSE IF t.type = "DEPLOY_ACCOUNT" THEN {"validate", "fee", "constructor"}
    ELSE {}

get_subcalled_contracts_from_tx_traces(traces) ==
    UNION {UNION {process_function_invocations(traces[i], part) :
                    part \in VisitedParts(traces[i])} : i \in DOMAIN traces}

\* declared_classes of the state diff, which has the Cairo 0 classes elsewhere.
state_diff_declared_classes == (declared \ OldClasses) \cap Sierra

\* The transactions are converted, and the traces read for the contracts and
\* the classes to visit.
ConvertTransactions ==
    /\ phase = "convert"
    /\ IF \A i \in DOMAIN block : IsConverted(block[i])
       THEN LET accessed == get_subcalled_contracts_from_tx_traces(block) IN
            /\ transactions' =
                 [i \in DOMAIN block |-> starknet_rs_tx_to_internal_tx(block[i])]
            /\ accessed_addresses' = {a.contract : a \in accessed}
            /\ accessed_classes' = {a.class : a \in accessed}
            /\ declared_classes' = state_diff_declared_classes
            /\ phase' = "classes"
            /\ UNCHANGED outcome
       ELSE /\ Stop("unimplemented")
            /\ UNCHANGED <<transactions, toVisit>>
    /\ UNCHANGED <<network, compiled, declared_class_hash_component_hashes, replay, os>>

\* What the node answers to starknet_getClassHashAt.
get_class_hash_at(classes, c) == classes[c]

\* add_compiled_class_to_os_input, for the classes ks in any order: a class
\* that is already known is left alone, a Cairo 0 class goes to the deprecated
\* classes only, and a Cairo 1 class is found by its compiled class hash.
add_compiled_class_to_os_input(ks) ==
    LET new == {k \in ks : k \notin DOMAIN class_hash_to_compiled_class_hash} IN
    /\ class_hash_to_compiled_class_hash' =
         [k \in new \cap Sierra |-> Casm(k)] ++ class_hash_to_compiled_class_hash
    /\ compiled_classes' =
         [h \in {Casm(k) : k \in new \cap Sierra} |-> h[2]] ++ compiled_classes
    /\ deprecated_compiled_classes' =
         deprecated_compiled_classes \cup (new \cap Legacy)

\* A bug: only the class before the block is fetched.
MutantContractClasses ==
    /\ phase = "classes"
    /\ \E c \in accessed_addresses :
         /\ accessed_addresses' = accessed_addresses \ {c}
         /\ add_compiled_class_to_os_input({get_class_hash_at(prevClass, c)} \ {NoClass})
    /\ UNCHANGED <<network, phase, transactions, accessed_classes, declared_classes,
                   declared_class_hash_component_hashes, replay, os, outcome>>

\* One round of the loop over the accessed contracts, which come in any
\* order: the class before the block, unless the contract was not yet
\* deployed (ContractNotFound), and the class after it.
AddContractClasses ==
    /\ phase = "classes"
    /\ \E c \in accessed_addresses :
         /\ accessed_addresses' = accessed_addresses \ {c}
         /\ add_compiled_class_to_os_input(
                ({get_class_hash_at(prevClass, c)} \ {NoClass})
                    \cup {get_class_hash_at(class, c)})
    /\ UNCHANGED <<network, phase, transactions, accessed_classes, declared_classes,
                   declared_class_hash_component_hashes, replay, os, outcome>>

\* A bug: the classes of the trace are taken for those of its contracts.
MutantAccessedClass ==
    /\ phase = "classes" /\ accessed_addresses = {}
    /\ \E k \in accessed_classes : accessed_classes' = accessed_classes \ {k}
    /\ UNCHANGED <<network, phase, transactions, accessed_addresses, declared_classes,
                   compiled, declared_class_hash_component_hashes, replay, os, outcome>>

\* One round of the loop over the classes of the trace.
AddAccessedClass ==
    /\ phase = "classes" /\ accessed_addresses = {}
    /\ \E k \in accessed_classes :
         /\ accessed_classes' = accessed_classes \ {k}
         /\ add_compiled_class_to_os_input({k})
    /\ UNCHANGED <<network, phase, transactions, accessed_addresses, declared_classes,
                   declared_class_hash_component_hashes, replay, os, outcome>>

\* One round of the loop over the declared classes of the state diff, which
\* are Cairo 1 classes.
AddComponentHashes ==
    /\ phase = "classes" /\ accessed_addresses = {} /\ accessed_classes = {}
    /\ \E k \in declared_classes :
         /\ declared_classes' = declared_classes \ {k}
         /\ declared_class_hash_component_hashes' =
              declared_class_hash_component_hashes \cup {k}
    /\ UNCHANGED <<network, phase, transactions, accessed_addresses, accessed_classes,
                   compiled, replay, os, outcome>>

\* A bug: a class keeps the entry it has, and gets a 0 if it has none.
MutantFormatDeclared ==
    class_hash_to_compiled_class_hash
        ++ [k \in state_diff_declared_classes |-> Zero]

\* A bug: Cairo 0 classes that the block declares get an entry as well.
MutantFormatLegacy ==
    [k \in declared \ OldClasses |-> Zero] ++ class_hash_to_compiled_class_hash

\* The OS expects 0 for the classes the block declares.
format_declared_classes ==
    [k \in state_diff_declared_classes |-> Zero]
        ++ class_hash_to_compiled_class_hash

FinishStateUpdate ==
    /\ phase = "classes"
    /\ accessed_addresses = {} /\ accessed_classes = {} /\ declared_classes = {}
    /\ class_hash_to_compiled_class_hash' = format_declared_classes
    /\ phase' = "replay"
    /\ UNCHANGED <<network, transactions, toVisit, compiled_classes,
                   deprecated_compiled_classes, declared_class_hash_component_hashes,
                   replay, os, outcome>>

(***************************************************************************)
(* prove_block, step 2: blockifier re-executes the block, and the state    *)
(* before it is read for the contracts blockifier has accessed.            *)
(***************************************************************************)

ToBlockifier ==
    /\ phase = "replay" /\ txs = <<>>
    /\ IF \A i \in DOMAIN block : IsReplayable(block[i])
       THEN /\ txs' = [i \in DOMAIN block |->
                         starknet_rs_to_blockifier(block[i], block[i].gas)]
            /\ UNCHANGED <<phase, outcome>>
       ELSE /\ Stop("unimplemented")
            /\ UNCHANGED txs
    /\ UNCHANGED <<network, transactions, toVisit, compiled,
                   declared_class_hash_component_hashes, tx_execution_infos,
                   contracts, contract_address_to_class_hash, os>>

\* What blockifier records of a transaction of the block.
execute(i) == [tx_hash |-> txs[i]["tx_hash"], is_reverted |-> block[i].reverted,
               steps |-> block[i].steps]

reexecute_transactions_with_blockifier ==
    /\ phase = "replay" /\ txs # <<>>
    /\ IF \A i \in DOMAIN block : IsExecutable(block[i], txs[i])
       THEN /\ tx_execution_infos' = [i \in DOMAIN txs |-> execute(i)]
            /\ phase' = "contracts"
            /\ UNCHANGED outcome
       ELSE /\ Stop("failed in blockifier")
            /\ UNCHANGED tx_execution_infos
    /\ UNCHANGED <<network, transactions, toVisit, compiled,
                   declared_class_hash_component_hashes, txs, contracts,
                   contract_address_to_class_hash, os>>

\* The contracts of the calls that blockifier made, in every part of every
\* transaction, and the contract of the block hashes.
AccessedContracts ==
    {c \in Contract :
        \E i \in DOMAIN tx_execution_infos :
            \E j \in DOMAIN tx_execution_infos[i].steps :
                tx_execution_infos[i].steps[j].contract = c}
        \cup {BlockHashContract}

\* A contract that is deployed in the block has class 0 before it.
previous_class_hash(c) ==
    IF c = BlockHashContract THEN NoClass ELSE get_class_hash_at(prevClass, c)

ReadContracts ==
    /\ phase = "contracts"
    /\ contracts' = [c \in AccessedContracts |-> previous_class_hash(c)]
    /\ contract_address_to_class_hash' =
         [c \in AccessedContracts \ {BlockHashContract} |-> get_class_hash_at(class, c)]
    /\ phase' = "initialize"
    /\ UNCHANGED <<network, transactions, toVisit, compiled,
                   declared_class_hash_component_hashes, txs, tx_execution_infos,
                   os, outcome>>

(***************************************************************************)
(* The OS.                                                                 *)
(***************************************************************************)

initialize_state_changes == osClass' = contracts
initialize_class_hashes == osCompiled' = class_hash_to_compiled_class_hash

InitializeOs ==
    /\ phase = "initialize"
    /\ initialize_state_changes
    /\ initialize_class_hashes
    /\ phase' = "os"
    /\ UNCHANGED <<network, inputs, tx, tx_execution_info, next, step, outcome>>

\* The step of the transaction in scope that the OS is about to take.
Current == tx_execution_info.steps[step]

InTx == phase = "os" /\ step > 0 /\ step <= Len(tx_execution_info.steps)

\* load_next_tx, the hints that read its fields, assert_transaction_hash and
\* start_tx.  One transaction and one execution info are taken; is_reverted
\* of the info tells the OS to leave out the execution.
LoadNextTx ==
    /\ phase = "os" /\ step = 0 /\ next < Len(transactions)
    /\ tx' = transactions[next + 1]
    /\ tx_execution_info' = tx_execution_infos[next + 1]
    /\ next' = next + 1
    /\ step' = 1
    /\ IF assert_transaction_hash(block[next + 1], tx')
       THEN UNCHANGED <<phase, outcome>>
       ELSE Stop("transaction")
    /\ UNCHANGED <<network, inputs, osClass, osCompiled>>

EndTx ==
    /\ phase = "os" /\ step > Len(tx_execution_info.steps)
    /\ step' = 0
    /\ UNCHANGED <<network, inputs, phase, tx, tx_execution_info, next, osClass,
                   osCompiled, outcome>>

FinishOs ==
    /\ phase = "os" /\ step = 0 /\ next = Len(transactions)
    /\ phase' = "done"
    /\ UNCHANGED <<network, inputs, os, outcome>>

\* load_deprecated_class_facts: the keys of the deprecated classes
deprecated_class_hashes == deprecated_compiled_classes

\* check_is_deprecated
is_deprecated(k) == k \in deprecated_class_hashes

\* The compiled class the OS runs for k: a deprecated one by its class hash,
\* another by what the dictionary of classes holds for it.
Finds(k) ==
    \/ is_deprecated(k)
    \/ /\ k \in DOMAIN osCompiled
       /\ osCompiled[k] \in DOMAIN compiled_classes
       /\ compiled_classes[osCompiled[k]] = k

\* The step is taken, or stops the run for a reason.
OsStep(ok, reason) ==
    /\ IF ok THEN UNCHANGED <<phase, outcome>> ELSE Stop(reason)
    /\ step' = step + 1
    /\ UNCHANGED <<network, inputs, tx, tx_execution_info, next>>

OsCall ==
    /\ InTx /\ Current.op = "call"
    /\ OsStep(/\ Current.contract \in DOMAIN osClass
              /\ osClass[Current.contract] = Current.class
              /\ Finds(Current.class), "class")
    /\ UNCHANGED <<osClass, osCompiled>>

OsLibraryCall ==
    /\ InTx /\ Current.op = "library"
    /\ OsStep(Finds(Current.class), "class")
    /\ UNCHANGED <<osClass, osCompiled>>

OsReplaceClass ==
    /\ InTx /\ Current.op = "replace"
    /\ osClass' = [osClass EXCEPT ![Current.contract] = Current.class]
    /\ OsStep(TRUE, "")
    /\ UNCHANGED osCompiled

\* DeployHandler::execute answers a class without a constructor with 0
\* instead of a pointer.  It looks the class of the new contract up in the
\* inputs; "No class_hash for contract_address", "No CASM" and "no deprecated
\* CC" are panics.
DeployLookup(c) ==
    LET class_hash == contract_address_to_class_hash[c] IN
    IF c \notin DOMAIN contract_address_to_class_hash THEN {}
    ELSE IF class_hash \in DOMAIN class_hash_to_compiled_class_hash
    THEN LET h == class_hash_to_compiled_class_hash[class_hash] IN
         IF h \in DOMAIN compiled_classes THEN {compiled_classes[h]} ELSE {}
    ELSE {class_hash} \cap deprecated_compiled_classes

need_retdata_hack(k) == k \notin WithConstructor

\* The answer is what the OS asserts when it has run the constructor.
DeployIsAnswered(c, k) ==
    \E found \in DeployLookup(c) : need_retdata_hack(found) <=> need_retdata_hack(k)

\* The deploy syscall of a Cairo 1 contract; Cairo 0 contracts and
\* DEPLOY_ACCOUNT transactions do not meet DeployHandler.
OsDeploy ==
    /\ InTx /\ Current.op = "deploy"
    /\ LET c == Current.contract
           k == Current.class
       IN  /\ osClass' = [osClass EXCEPT ![c] = k]
           /\ IF Current.caller \in Sierra /\ ~DeployIsAnswered(c, k)
              THEN OsStep(FALSE, "deploy")
              ELSE OsStep(/\ c \in DOMAIN osClass
                          /\ osClass[c] = NoClass
                          /\ Finds(k), "class")
    /\ UNCHANGED osCompiled

\* set_component_hashes, and dict_update with prev_value = 0.  A deprecated
\* declaration leaves the dictionary of classes alone.
OsDeclare ==
    /\ InTx /\ Current.op = "declare"
    /\ LET k == Current.class IN
       IF tx["version"] <= 1
       THEN OsStep(TRUE, "") /\ UNCHANGED osCompiled
       ELSE /\ OsStep(/\ k \in declared_class_hash_component_hashes
                      /\ k \in DOMAIN osCompiled
                      /\ osCompiled[k] = Zero, "declare")
            /\ osCompiled' = [j \in {k} |-> Casm(j)] ++ osCompiled
    /\ UNCHANGED osClass

Terminated ==
    /\ phase \in {"done", "stopped"}
    /\ UNCHANGED vars

(***************************************************************************)
(* Specification                                                           *)
(***************************************************************************)

Init ==
    /\ prevClass \in {f \in [Contract -> OldClasses \cup {NoClass}] :
                        \A c \in Contract : f[c] = NoClass <=> c \in NewContracts}
    /\ class = prevClass
    /\ declared = OldClasses
    /\ block = <<>>
    /\ phase = "sequence"
    /\ transactions = <<>>
    /\ accessed_addresses = {} /\ accessed_classes = {} /\ declared_classes = {}
    /\ class_hash_to_compiled_class_hash = EmptyMap
    /\ compiled_classes = EmptyMap
    /\ deprecated_compiled_classes = {}
    /\ declared_class_hash_component_hashes = {}
    /\ txs = <<>> /\ tx_execution_infos = <<>>
    /\ contracts = EmptyMap /\ contract_address_to_class_hash = EmptyMap
    /\ tx = EmptyMap /\ tx_execution_info = [steps |-> <<>>]
    /\ next = 0 /\ step = 0
    /\ osClass = EmptyMap /\ osCompiled = EmptyMap
    /\ outcome = "ok"

Next ==
    \/ SequenceInvoke \/ SequenceL1Handler \/ SequenceDeclare
    \/ SequenceDeployAccount \/ SequenceDeploy \/ Seal
    \/ ConvertTransactions
    \/ AddContractClasses \/ AddAccessedClass \/ AddComponentHashes
    \/ FinishStateUpdate
    \/ ToBlockifier \/ reexecute_transactions_with_blockifier \/ ReadContracts
    \/ InitializeOs \/ LoadNextTx \/ EndTx \/ FinishOs
    \/ OsCall \/ OsLibraryCall \/ OsReplaceClass \/ OsDeploy \/ OsDeclare
    \/ Terminated

Spec == Init /\ [][Next]_vars

(***************************************************************************)
(* Properties                                                              *)
(***************************************************************************)

\* The transaction in scope and the execution info that the helper replays
\* are those of the same transaction of the block, every hint has found its
\* field and the hash the OS computes from them is the one of the
\* transaction; and blockifier has run it with the fields of the block.
OneTransaction ==
    /\ outcome # "transaction" /\ outcome # "failed in blockifier"
    /\ (phase = "os" /\ step > 0) =>
         /\ tx["hash_value"] = tx_execution_info.tx_hash
         /\ block[next].id = tx["hash_value"]

\* Every class the OS runs is in the inputs, where the OS looks for it, at
\* every moment of the block: also a class that a contract had between two
\* transactions only, one that only lent its code to a library call, and one
\* declared earlier in the block.
ClassesAreFound == outcome # "class"

\* A declaration finds the class undeclared in the dictionary of the OS, even
\* if the class is used later in the block, and its component hashes in the
\* inputs.
DeclarationsFindZero == outcome # "declare"

\* DeployHandler is given the class the contract has at the end of the block,
\* and for classes of the block 0 instead of the compiled class hash: it does
\* not answer the deployment of a contract whose last class the block has
\* declared, or differs from the deployed one in having a constructor.  It
\* fails for no other reason.
DeploysAreAnswered ==
    outcome = "deploy" =>
        LET s == tx_execution_info.steps[step - 1]
            last == class[s.contract]
        IN  \/ last \in Sierra \ OldClasses
            \/ need_retdata_hack(last) # need_retdata_hack(s.class)

\* When the OS is through, its dictionaries are the state of the network
\* after the block.
OsReachesTheBlock ==
    phase = "done" =>
        /\ \A c \in DOMAIN osClass \ {BlockHashContract} : osClass[c] = class[c]
        /\ \A c \in Contract \ DOMAIN osClass : class[c] = prevClass[c]
        /\ \A k \in DOMAIN osCompiled : osCompiled[k] = Casm(k)
        /\ state_diff_declared_classes \subseteq DOMAIN osCompiled
=============================================================================
