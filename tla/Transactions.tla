---------------------------- MODULE Transactions ----------------------------
(***************************************************************************)
(* A transaction on its way from the RPC node to the OS.                   *)
(*                                                                         *)
(* prove_block converts every transaction of the block twice: into an      *)
(* InternalTransaction, whose fields the hints of the OS hand to the Cairo *)
(* program (types.rs), and into a transaction of blockifier, which         *)
(* re-executes it (rpc-replay).  Every field of InternalTransaction is     *)
(* optional: a hint whose field the conversion left out stops the run.     *)
(*                                                                         *)
(* A transaction is a record with its type, version and id; the value of   *)
(* its field f is <<f, id>>, so that two fields, or the fields of two      *)
(* transactions, are never mistaken for each other.  An internal           *)
(* transaction is a function on the fields that are Some.                  *)
(***************************************************************************)
EXTENDS Naturals, Sequences

Zero == <<"0">>
One == <<"1">>
Missing == <<"missing">>

\* The function that is f where f is defined, and g elsewhere.
f ++ g == [x \in DOMAIN f \cup DOMAIN g |-> IF x \in DOMAIN f THEN f[x] ELSE g[x]]

(***************************************************************************)
(* What the node gives.                                                    *)
(***************************************************************************)

\* The transaction types and versions of the Starknet protocol.
Kinds ==
    {<<"INVOKE_FUNCTION", v>> : v \in {0, 1, 3}} \cup
    {<<"L1_HANDLER", 0>>, <<"DEPLOY", 0>>} \cup
    {<<"DECLARE", v>> : v \in 0..3} \cup
    {<<"DEPLOY_ACCOUNT", v>> : v \in {1, 3}}

V3Fields == {"resource_bounds", "tip", "paymaster_data",
             "nonce_data_availability_mode", "fee_data_availability_mode"}

FeeFields(v) == IF v < 3 THEN {"max_fee"} ELSE V3Fields

\* The fields of a transaction of the protocol, which are the ones its hash
\* is computed from, and its signature.
RpcFields(tx) ==
    IF tx.type = "INVOKE_FUNCTION" /\ tx.version = 0
    THEN {"contract_address", "entry_point_selector", "calldata", "max_fee",
          "signature"}
    ELSE IF tx.type = "INVOKE_FUNCTION"
    THEN {"sender_address", "calldata", "nonce", "signature"}
            \cup FeeFields(tx.version)
            \cup (IF tx.version = 3 THEN {"account_deployment_data"} ELSE {})
    ELSE IF tx.type = "L1_HANDLER"
    THEN {"contract_address", "entry_point_selector", "calldata", "nonce"}
    ELSE IF tx.type = "DECLARE"
    THEN {"sender_address", "class_hash", "signature"}
            \cup FeeFields(tx.version)
            \cup (IF tx.version > 0 THEN {"nonce"} ELSE {})
            \cup (IF tx.version > 1 THEN {"compiled_class_hash"} ELSE {})
            \cup (IF tx.version = 3 THEN {"account_deployment_data"} ELSE {})
    ELSE IF tx.type = "DEPLOY_ACCOUNT"
    THEN {"contract_address_salt", "class_hash", "constructor_calldata",
          "nonce", "signature"} \cup FeeFields(tx.version)
    ELSE {}

DaFields == {"nonce_data_availability_mode", "fee_data_availability_mode"}

\* Nonces are kept on L1 and fees on L2, so that the two modes differ.
DaMode(f) == IF f = "nonce_data_availability_mode" THEN "L1" ELSE "L2"

\* The value of a field, as the node sends it.
Rpc(tx, f) ==
    IF f = "resource_bounds"
    THEN [l1_gas |-> <<"l1_gas", tx.id>>, l2_gas |-> <<"l2_gas", tx.id>>]
    ELSE IF f \in DaFields THEN DaMode(f)
    ELSE <<f, tx.id>>

\* The felts a field contributes to the hash of the transaction.
HashedValue(tx, f) ==
    IF f = "resource_bounds"
    THEN <<"L1_GAS", <<"l1_gas", tx.id>>, "L2_GAS", <<"l2_gas", tx.id>>>>
    ELSE IF f = "nonce_data_availability_mode" THEN Zero
    ELSE IF f = "fee_data_availability_mode" THEN One
    ELSE <<f, tx.id>>

Address(salt, class_hash, calldata) == <<"address", salt, class_hash, calldata>>

(***************************************************************************)
(* Into an InternalTransaction.                                            *)
(***************************************************************************)

resource_bounds_core_to_api(b) == [L1Gas |-> b.l1_gas, L2Gas |-> b.l2_gas]

da_to_felt(mode) == IF mode = "L1" THEN Zero ELSE One

\* The conversions take most fields as they are.
Take(tx, fields) == [f \in fields |-> Rpc(tx, f)]

TakeV3(tx) ==
    [f \in V3Fields |->
        IF f = "resource_bounds" THEN resource_bounds_core_to_api(Rpc(tx, f))
        ELSE IF f \in DaFields THEN da_to_felt(Rpc(tx, f))
        ELSE Rpc(tx, f)]

invoke_tx_v0_to_internal_tx(tx) ==
    Take(tx, {"max_fee", "signature", "contract_address",
              "entry_point_selector", "calldata"})

ExecuteEntryPoint(tx) ==
    [contract_address |-> Rpc(tx, "sender_address"),
     entry_point_selector |-> <<"__execute__">>,
     entry_point_type |-> <<"EXTERNAL">>]

invoke_tx_v1_to_internal_tx(tx) ==
    Take(tx, {"nonce", "sender_address", "signature", "calldata", "max_fee"})
        ++ ExecuteEntryPoint(tx)

invoke_tx_v3_to_internal_tx(tx) ==
    Take(tx, {"sender_address", "signature", "nonce", "calldata",
              "account_deployment_data"})
        ++ TakeV3(tx) ++ ExecuteEntryPoint(tx)

invoke_tx_to_internal_tx(tx) ==
    IF tx.version = 0 THEN invoke_tx_v0_to_internal_tx(tx)
    ELSE IF tx.version = 1 THEN invoke_tx_v1_to_internal_tx(tx)
    ELSE invoke_tx_v3_to_internal_tx(tx)

l1handler_to_internal_tx(tx) ==
    Take(tx, {"contract_address", "nonce", "entry_point_selector", "calldata"})

declare_v0_to_internal_tx(tx) ==
    Take(tx, {"sender_address", "max_fee", "signature", "class_hash"})

declare_v1_to_internal_tx(tx) ==
    Take(tx, {"sender_address", "max_fee", "signature", "nonce", "class_hash"})

declare_v2_to_internal_tx(tx) ==
    Take(tx, {"sender_address", "compiled_class_hash", "max_fee", "signature",
              "nonce", "class_hash"})

\* A bug: the compiled class hash of a version 3 declaration is forgotten.
MutantDeclareV3(tx) ==
    Take(tx, {"sender_address", "signature", "nonce", "class_hash",
              "account_deployment_data"}) ++ TakeV3(tx)

declare_v3_to_internal_tx(tx) ==
    Take(tx, {"sender_address", "compiled_class_hash", "signature", "nonce",
              "class_hash", "account_deployment_data"}) ++ TakeV3(tx)

DeployAccountFields ==
    {"signature", "nonce", "contract_address_salt", "constructor_calldata",
     "class_hash"}

deploy_account_v1_to_internal_tx(tx) ==
    Take(tx, DeployAccountFields \cup {"max_fee"})
        ++ [entry_point_selector |-> Zero,
            contract_address |->
                Address(Rpc(tx, "contract_address_salt"), Rpc(tx, "class_hash"),
                        Rpc(tx, "constructor_calldata"))]

deploy_account_v3_to_internal_tx(tx) ==
    Take(tx, DeployAccountFields) ++ TakeV3(tx)

\* A deprecated deploy transaction is not converted but stops the program
\* with unimplemented!.
IsConverted(tx) == tx.type # "DEPLOY"

declare_to_internal_tx(tx) ==
    IF tx.version = 0 THEN declare_v0_to_internal_tx(tx)
    ELSE IF tx.version = 1 THEN declare_v1_to_internal_tx(tx)
    ELSE IF tx.version = 2 THEN declare_v2_to_internal_tx(tx)
    ELSE declare_v3_to_internal_tx(tx)

deploy_account_to_internal_tx(tx) ==
    IF tx.version = 1 THEN deploy_account_v1_to_internal_tx(tx)
                      ELSE deploy_account_v3_to_internal_tx(tx)

FieldsByType(tx) ==
    IF tx.type = "INVOKE_FUNCTION" THEN invoke_tx_to_internal_tx(tx)
    ELSE IF tx.type = "L1_HANDLER" THEN l1handler_to_internal_tx(tx)
    ELSE IF tx.type = "DECLARE" THEN declare_to_internal_tx(tx)
    ELSE deploy_account_to_internal_tx(tx)

\* hash_value, version and type come from the transaction in every conversion.
starknet_rs_tx_to_internal_tx(tx) ==
    [hash_value |-> tx.id, version |-> tx.version, type |-> tx.type]
        ++ FieldsByType(tx)

(***************************************************************************)
(* Into a transaction of blockifier.                                       *)
(***************************************************************************)

\* Version 0 transactions and deprecated deploys stop the program with
\* unimplemented!, an L1 handler with gas of both kinds with unreachable!.
IsReplayable(tx) ==
    /\ tx.type # "DEPLOY"
    /\ tx.type \in {"INVOKE_FUNCTION", "DECLARE"} => tx.version # 0
    /\ tx.type = "L1_HANDLER" => tx.gas.l1_gas = 0 \/ tx.gas.l1_data_gas = 0

TakeV3ForBlockifier(tx) ==
    [f \in V3Fields |-> IF f = "resource_bounds"
                          THEN resource_bounds_core_to_api(Rpc(tx, f))
                          ELSE Rpc(tx, f)]

invoke_v1_to_blockifier(tx) ==
    Take(tx, {"max_fee", "signature", "nonce", "sender_address", "calldata"})

invoke_v3_to_blockifier(tx) ==
    Take(tx, {"signature", "nonce", "sender_address", "calldata",
              "account_deployment_data"}) ++ TakeV3ForBlockifier(tx)

declare_v1_to_blockifier(tx) ==
    Take(tx, {"max_fee", "signature", "nonce", "class_hash", "sender_address"})

declare_v2_to_blockifier(tx) ==
    Take(tx, {"max_fee", "signature", "nonce", "class_hash",
              "compiled_class_hash", "sender_address"})

declare_v3_to_blockifier(tx) ==
    Take(tx, {"signature", "nonce", "class_hash", "compiled_class_hash",
              "sender_address", "account_deployment_data"})
        ++ TakeV3ForBlockifier(tx)

\* recalculate_contract_address, and calculate_contract_address for version 1
DeployedAccount(tx) ==
    [contract_address |-> Address(Rpc(tx, "contract_address_salt"),
                                  Rpc(tx, "class_hash"),
                                  Rpc(tx, "constructor_calldata"))]

deploy_account_v1_to_blockifier(tx) ==
    Take(tx, DeployAccountFields \cup {"max_fee"}) ++ DeployedAccount(tx)

deploy_account_v3_to_blockifier(tx) ==
    Take(tx, DeployAccountFields) ++ TakeV3ForBlockifier(tx) ++ DeployedAccount(tx)

\* The prices of gas and of data gas; both are NonZeroU128.
GasPrice == 2
DataGasPrice == 3
DefaultL1Fee == 1000

\* The fee that was paid on L1, which the node does not give, is made up from
\* the gas in the trace.  Blockifier refuses an L1 handler that paid nothing.
paid_fee_on_l1(gas) ==
    IF gas.l1_gas = 0 /\ gas.l1_data_gas = 0 THEN DefaultL1Fee
    ELSE IF gas.l1_gas = 0 THEN DataGasPrice * gas.l1_data_gas
    ELSE GasPrice * gas.l1_gas

l1_handler_to_blockifier(tx, gas) ==
    Take(tx, {"nonce", "contract_address", "entry_point_selector", "calldata"})
        ++ [paid_fee_on_l1 |-> paid_fee_on_l1(gas)]

invoke_to_blockifier(tx) ==
    IF tx.version = 1 THEN invoke_v1_to_blockifier(tx)
                      ELSE invoke_v3_to_blockifier(tx)

declare_to_blockifier(tx) ==
    IF tx.version = 1 THEN declare_v1_to_blockifier(tx)
    ELSE IF tx.version = 2 THEN declare_v2_to_blockifier(tx)
    ELSE declare_v3_to_blockifier(tx)

deploy_account_to_blockifier(tx) ==
    IF tx.version = 1 THEN deploy_account_v1_to_blockifier(tx)
                      ELSE deploy_account_v3_to_blockifier(tx)

starknet_rs_to_blockifier(tx, gas) ==
    [tx_hash |-> tx.id] ++
    (IF tx.type = "INVOKE_FUNCTION" THEN invoke_to_blockifier(tx)
     ELSE IF tx.type = "DECLARE" THEN declare_to_blockifier(tx)
     ELSE IF tx.type = "L1_HANDLER" THEN l1_handler_to_blockifier(tx, gas)
     ELSE deploy_account_to_blockifier(tx))

\* What blockifier needs of a transaction: every field of the protocol, and a
\* fee for an L1 handler.
IsExecutable(tx, btx) ==
    /\ \A f \in RpcFields(tx) : f \in DOMAIN btx
    /\ tx.type = "L1_HANDLER" => btx["paid_fee_on_l1"] > 0

(***************************************************************************)
(* The hints that read the transaction in scope.                           *)
(***************************************************************************)

\* ok_or(...) and expect(...): the hint fails when the field is None.
Some(t, f) == IF f \in DOMAIN t THEN t[f] ELSE Missing

\* The fields of version 3 read 0 before it.
FromV3(t, f) == IF t["version"] < 3 THEN Zero ELSE Some(t, f)

contract_address(t) ==
    IF t["type"] = "L1_HANDLER"
    THEN Some(t, "contract_address")
    ELSE Some(t, "sender_address")

tx_calldata(t) == Some(t, "calldata")

tx_entry_point_selector(t) == Some(t, "entry_point_selector")

create_resource_bounds_list(b) == <<"L1_GAS", b.L1Gas, "L2_GAS", b.L2Gas>>

resource_bounds(t) ==
    IF t["version"] < 3 THEN Zero
    ELSE IF "resource_bounds" \in DOMAIN t
         THEN create_resource_bounds_list(t["resource_bounds"])
         ELSE Missing

tx_max_fee(t) == IF t["version"] < 3 THEN Some(t, "max_fee") ELSE Zero

tx_nonce(t) == IF "nonce" \in DOMAIN t THEN t["nonce"] ELSE Zero

\* the nonce of an L1 handler
set_ap_to_tx_nonce(t) == Some(t, "nonce")

tx_tip(t) == FromV3(t, "tip")

tx_paymaster_data(t) == FromV3(t, "paymaster_data")

tx_nonce_data_availability_mode(t) == FromV3(t, "nonce_data_availability_mode")

tx_fee_data_availability_mode(t) == FromV3(t, "fee_data_availability_mode")

tx_account_deployment_data(t) == FromV3(t, "account_deployment_data")

gen_signature_arg(t) == Some(t, "signature")

\* gen_class_hash_arg: a deprecated declaration must have no compiled class
\* hash, the others must have one.
gen_class_hash_arg(t) ==
    [sender_address |-> Some(t, "sender_address"),
     class_hash |-> Some(t, "class_hash"),
     compiled_class_hash |->
        IF t["version"] > 1 THEN Some(t, "compiled_class_hash")
        ELSE IF "compiled_class_hash" \in DOMAIN t THEN Missing
        ELSE Zero]

prepare_constructor_execution(t) ==
    [contract_address_salt |-> Some(t, "contract_address_salt"),
     class_hash |-> Some(t, "class_hash"),
     constructor_calldata |->
        IF "constructor_calldata" \in DOMAIN t
        THEN t["constructor_calldata"] ELSE <<>>]

(***************************************************************************)
(* The OS program asks the hints and computes the hash of the transaction  *)
(* from their answers.                                                     *)
(***************************************************************************)

CommonFields(t) ==
    [max_fee |-> tx_max_fee(t), nonce |-> tx_nonce(t), tip |-> tx_tip(t),
     resource_bounds |-> resource_bounds(t), paymaster_data |-> tx_paymaster_data(t),
     nonce_data_availability_mode |-> tx_nonce_data_availability_mode(t),
     fee_data_availability_mode |-> tx_fee_data_availability_mode(t),
     signature |-> gen_signature_arg(t)]

HintAnswers(t) ==
    IF t["type"] = "INVOKE_FUNCTION"
    THEN CommonFields(t) ++
         [sender_address |-> contract_address(t), calldata |-> tx_calldata(t),
          account_deployment_data |-> tx_account_deployment_data(t)]
    ELSE IF t["type"] = "L1_HANDLER"
    THEN [contract_address |-> contract_address(t), calldata |-> tx_calldata(t),
          entry_point_selector |-> tx_entry_point_selector(t),
          nonce |-> set_ap_to_tx_nonce(t)]
    ELSE IF t["type"] = "DECLARE"
    THEN CommonFields(t) ++ gen_class_hash_arg(t) ++
         [account_deployment_data |-> tx_account_deployment_data(t)]
    ELSE CommonFields(t) ++ prepare_constructor_execution(t)

\* The hash of the protocol covers the fields the transaction has; the fields
\* of the other versions count as 0.
Hashed(tx, f) == IF f \in RpcFields(tx) THEN HashedValue(tx, f) ELSE Zero

\* assert_transaction_hash, after every hint has found its field.
assert_transaction_hash(tx, t) ==
    LET answers == HintAnswers(t) IN
    /\ RpcFields(tx) \subseteq DOMAIN answers
    /\ \A f \in DOMAIN answers : answers[f] = Hashed(tx, f)
=============================================================================
