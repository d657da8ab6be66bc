--------------------------- MODULE ProveBlockProofs ---------------------------
(***************************************************************************)
(* Proofs about ProveBlock, for any contracts and classes and for blocks   *)
(* of any length; a transaction takes at most one inner step (InnerSteps). *)
(*                                                                         *)
(* The node knows the class of a contract before and after the block only, *)
(* the OS replays every class in between.  The two meet in the block       *)
(* itself: the class a contract has at a place of the block is the one of  *)
(* the last step before that place that gave it one (ClassBefore).  The    *)
(* inductive invariant says that every step of the block was taken with    *)
(* the class of its place, that the inputs hold what these steps need, and *)
(* that the dictionaries of the OS are those of the place it has reached.  *)
(***************************************************************************)
EXTENDS ProveBlock, SequenceTheorems, TLAPS

-----------------------------------------------------------------------------
(***************************************************************************)
(* Every field of a transaction reaches blockifier and the OS.             *)
(*                                                                         *)
(* A conversion copies most fields (Plain) and turns the others into felts *)
(* (V3Fields).  What it makes of a field f is Internal(t, f), and what the *)
(* hash of the protocol covers is HashedValue(t, f); the hints of the OS   *)
(* lead from the first to the second, for every kind of transaction and    *)
(* every version.                                                          *)
(***************************************************************************)

\* The gas in the trace.
Gas == [l1_gas : Nat, l1_data_gas : Nat]

\* The field f of an internal transaction.
Internal(t, f) ==
    IF f = "resource_bounds" THEN resource_bounds_core_to_api(Rpc(t, f))
    ELSE IF f \in DaFields THEN da_to_felt(Rpc(t, f))
    ELSE Rpc(t, f)

\* An internal transaction has the fields given, as they are in t.
Carries(u, t, fields) ==
    /\ {"version", "type"} \cup fields \subseteq DOMAIN u
    /\ u["version"] = t.version /\ u["type"] = t.type
    /\ \A f \in fields : u[f] = Internal(t, f)

\* The fields that are copied.
Plain ==
    {"sender_address", "calldata", "nonce", "signature", "max_fee",
     "account_deployment_data", "class_hash", "compiled_class_hash",
     "contract_address_salt", "constructor_calldata", "contract_address",
     "entry_point_selector"}

\* The fields that every transaction of an account has.
AccountFields(t) == {"nonce", "signature"} \cup FeeFields(t.version)

-----------------------------------------------------------------------------
(* Into an InternalTransaction.                                            *)

LEMMA V3Taken ==
    ASSUME NEW t
    PROVE  DOMAIN TakeV3(t) = V3Fields /\ \A f \in V3Fields : TakeV3(t)[f] = Internal(t, f)
  BY DEF TakeV3, Internal

LEMMA PlainTaken ==
    ASSUME NEW t, NEW S \in SUBSET Plain
    PROVE  DOMAIN Take(t, S) = S /\ \A f \in S : Take(t, S)[f] = Internal(t, f)
  BY DEF Take, Internal, Plain, DaFields

\* A field reads the same in the hash.
LEMMA PlainHashed ==
    ASSUME NEW t, NEW f \in Plain
    PROVE  Internal(t, f) = HashedValue(t, f)
  BY DEF Plain, Internal, Rpc, HashedValue, DaFields

\* What a conversion takes of both kinds of fields.
LEMMA BothTaken ==
    ASSUME NEW t, NEW S \in SUBSET Plain, NEW h, h = Take(t, S) ++ TakeV3(t)
    PROVE  DOMAIN h = S \cup V3Fields /\ \A f \in DOMAIN h : h[f] = Internal(t, f)
<1>1. PICK a : a = Take(t, S)
  OBVIOUS
<1>2. PICK b : b = TakeV3(t)
  OBVIOUS
<1>3. /\ DOMAIN a = S /\ \A f \in S : a[f] = Internal(t, f)
      /\ DOMAIN b = V3Fields /\ \A f \in V3Fields : b[f] = Internal(t, f)
  BY <1>1, <1>2, PlainTaken, V3Taken
<1>4. h = a ++ b
  BY <1>1, <1>2
<1>5. /\ DOMAIN h = DOMAIN a \cup DOMAIN b
      /\ \A f \in DOMAIN h : h[f] = IF f \in DOMAIN a THEN a[f] ELSE b[f]
  BY <1>4 DEF ++
<1> QED BY <1>3, <1>5

\* hash_value, version and type come before the fields of every conversion.
LEMMA Headed ==
    ASSUME NEW t, NEW h, h = FieldsByType(t), NEW fields \in SUBSET DOMAIN h,
           fields \cap {"hash_value", "version", "type"} = {},
           \A f \in fields : h[f] = Internal(t, f)
    PROVE  /\ Carries(starknet_rs_tx_to_internal_tx(t), t, fields)
           /\ DOMAIN starknet_rs_tx_to_internal_tx(t) =
                {"hash_value", "version", "type"} \cup DOMAIN h
<1>1. PICK a : a = [hash_value |-> t.id, version |-> t.version, type |-> t.type]
  OBVIOUS
<1>2. /\ DOMAIN a = {"hash_value", "version", "type"}
      /\ a["version"] = t.version /\ a["type"] = t.type
  BY <1>1
<1>3. PICK u : u = a ++ h
  OBVIOUS
<1>4. u = starknet_rs_tx_to_internal_tx(t)
  BY <1>1, <1>3 DEF starknet_rs_tx_to_internal_tx
<1>5. /\ DOMAIN u = DOMAIN a \cup DOMAIN h
      /\ \A f \in DOMAIN a : u[f] = a[f]
      /\ \A f \in DOMAIN h : f \notin DOMAIN a => u[f] = h[f]
  BY <1>3 DEF ++
<1> QED BY <1>2, <1>4, <1>5 DEF Carries

LEMMA InvokeCarried ==
    ASSUME NEW t, t.type = "INVOKE_FUNCTION", t.version \in {1, 3}
    PROVE  Carries(starknet_rs_tx_to_internal_tx(t), t, RpcFields(t))
<1>1. PICK h : h = FieldsByType(t)
  OBVIOUS
<1>2. CASE t.version = 1
  <2>1. RpcFields(t) = {"nonce", "sender_address", "signature", "calldata", "max_fee"}
    BY <1>2 DEF RpcFields, FeeFields
  <2>2. PICK g : g = Take(t, RpcFields(t))
    OBVIOUS
  <2>3. DOMAIN g = RpcFields(t) /\ \A f \in RpcFields(t) : g[f] = Internal(t, f)
    BY <2>1, <2>2, PlainTaken DEF Plain
  <2>4. h = g ++ ExecuteEntryPoint(t)
    BY <1>1, <1>2, <2>1, <2>2
    DEF FieldsByType, invoke_tx_to_internal_tx, invoke_tx_v1_to_internal_tx
  <2>5. RpcFields(t) \subseteq DOMAIN h /\ \A f \in RpcFields(t) : h[f] = Internal(t, f)
    <3>1. DOMAIN g \subseteq DOMAIN h /\ \A f \in DOMAIN g : h[f] = g[f]
      BY <2>4 DEF ++
    <3> QED BY <2>3, <3>1
  <2> QED BY <1>1, <2>1, <2>5, Headed
<1>3. CASE t.version = 3
  <2> DEFINE S == {"sender_address", "signature", "nonce", "calldata",
                   "account_deployment_data"}
  <2>1. RpcFields(t) = S \cup V3Fields
    BY <1>3 DEF RpcFields, FeeFields
  <2>2. PICK g : g = Take(t, S) ++ TakeV3(t)
    OBVIOUS
  <2>3. DOMAIN g = RpcFields(t) /\ \A f \in RpcFields(t) : g[f] = Internal(t, f)
    <3>1. S \in SUBSET Plain
      BY DEF Plain
    <3> HIDE DEF S
    <3> QED BY <2>1, <2>2, <3>1, BothTaken
  <2>4. h = g ++ ExecuteEntryPoint(t)
    BY <1>1, <1>3, <2>2
    DEF FieldsByType, invoke_tx_to_internal_tx, invoke_tx_v3_to_internal_tx
  <2>5. RpcFields(t) \subseteq DOMAIN h /\ \A f \in RpcFields(t) : h[f] = Internal(t, f)
    <3>1. DOMAIN g \subseteq DOMAIN h /\ \A f \in DOMAIN g : h[f] = g[f]
      BY <2>4 DEF ++
    <3> QED BY <2>3, <3>1
  <2> QED BY <1>1, <2>1, <2>5, Headed DEF V3Fields
<1> QED BY <1>2, <1>3

LEMMA L1HandlerCarried ==
    ASSUME NEW t, t.type = "L1_HANDLER"
    PROVE  Carries(starknet_rs_tx_to_internal_tx(t), t, RpcFields(t))
<1>1. PICK h : h = FieldsByType(t)
  OBVIOUS
<1>2. RpcFields(t) = {"contract_address", "entry_point_selector", "calldata", "nonce"}
  BY DEF RpcFields
<1>3. h = Take(t, RpcFields(t))
  BY <1>1, <1>2 DEF FieldsByType, l1handler_to_internal_tx
<1>4. DOMAIN h = RpcFields(t) /\ \A f \in RpcFields(t) : h[f] = Internal(t, f)
  BY <1>2, <1>3, PlainTaken DEF Plain
<1> QED BY <1>1, <1>2, <1>4, Headed

LEMMA DeclareCarried ==
    ASSUME NEW t, t.type = "DECLARE", t.version \in {1, 2, 3}
    PROVE  /\ Carries(starknet_rs_tx_to_internal_tx(t), t, RpcFields(t))
           /\ t.version = 1 =>
                 "compiled_class_hash" \notin DOMAIN starknet_rs_tx_to_internal_tx(t)
<1>1. PICK h : h = FieldsByType(t)
  OBVIOUS
<1>2. CASE t.version = 1
  <2>1. RpcFields(t) = {"sender_address", "max_fee", "signature", "nonce", "class_hash"}
    BY <1>2 DEF RpcFields, FeeFields
  <2>2. h = Take(t, RpcFields(t))
    BY <1>1, <1>2, <2>1
    DEF FieldsByType, declare_to_internal_tx, declare_v1_to_internal_tx
  <2>3. DOMAIN h = RpcFields(t) /\ \A f \in RpcFields(t) : h[f] = Internal(t, f)
    BY <2>1, <2>2, PlainTaken DEF Plain
  <2>6. RpcFields(t) \in SUBSET DOMAIN h
    BY <2>3
  <2>7. /\ RpcFields(t) \cap {"hash_value", "version", "type"} = {}
        /\ "compiled_class_hash" \notin {"hash_value", "version", "type"} \cup DOMAIN h
    BY <2>1, <2>3
  <2> QED BY <1>1, <2>3, <2>6, <2>7, Headed
<1>3. CASE t.version = 2
  <2>1. RpcFields(t) = {"sender_address", "compiled_class_hash", "max_fee", "signature",
                        "nonce", "class_hash"}
    BY <1>3 DEF RpcFields, FeeFields
  <2>2. h = Take(t, RpcFields(t))
    BY <1>1, <1>3, <2>1
    DEF FieldsByType, declare_to_internal_tx, declare_v2_to_internal_tx
  <2>3. DOMAIN h = RpcFields(t) /\ \A f \in RpcFields(t) : h[f] = Internal(t, f)
    BY <2>1, <2>2, PlainTaken DEF Plain
  <2>6. RpcFields(t) \in SUBSET DOMAIN h
    BY <2>3
  <2>7. RpcFields(t) \cap {"hash_value", "version", "type"} = {}
    BY <2>1
  <2>8. Carries(starknet_rs_tx_to_internal_tx(t), t, RpcFields(t))
    BY <1>1, <2>3, <2>6, <2>7, Headed
  <2> QED BY <1>3, <2>8
<1>4. CASE t.version = 3
  <2> DEFINE S == {"sender_address", "compiled_class_hash", "signature", "nonce",
                   "class_hash", "account_deployment_data"}
  <2>1. RpcFields(t) = S \cup V3Fields
    BY <1>4 DEF RpcFields, FeeFields
  <2>2. h = Take(t, S) ++ TakeV3(t)
    BY <1>1, <1>4 DEF FieldsByType, declare_to_internal_tx, declare_v3_to_internal_tx
  <2>3. DOMAIN h = RpcFields(t) /\ \A f \in RpcFields(t) : h[f] = Internal(t, f)
    <3>1. S \in SUBSET Plain
      BY DEF Plain
    <3> HIDE DEF S
    <3> QED BY <2>1, <2>2, <3>1, BothTaken
  <2>6. RpcFields(t) \in SUBSET DOMAIN h
    BY <1>4, <2>3
  <2>7. RpcFields(t) \cap {"hash_value", "version", "type"} = {}
    BY <2>1 DEF V3Fields
  <2>8. Carries(starknet_rs_tx_to_internal_tx(t), t, RpcFields(t))
    BY <1>1, <2>3, <2>6, <2>7, Headed
  <2> QED BY <1>4, <2>8
<1> QED BY <1>2, <1>3, <1>4

LEMMA DeployAccountCarried ==
    ASSUME NEW t, t.type = "DEPLOY_ACCOUNT", t.version \in {1, 3}
    PROVE  Carries(starknet_rs_tx_to_internal_tx(t), t, RpcFields(t))
<1>1. PICK h : h = FieldsByType(t)
  OBVIOUS
<1>2. CASE t.version = 1
  <2>1. RpcFields(t) = DeployAccountFields \cup {"max_fee"}
    BY <1>2 DEF RpcFields, FeeFields, DeployAccountFields
  <2>2. PICK g, e : /\ g = Take(t, RpcFields(t))
                    /\ e = [entry_point_selector |-> Zero,
                            contract_address |->
                                Address(Rpc(t, "contract_address_salt"), Rpc(t, "class_hash"),
                                        Rpc(t, "constructor_calldata"))]
    OBVIOUS
  <2>3. DOMAIN g = RpcFields(t) /\ \A f \in RpcFields(t) : g[f] = Internal(t, f)
    BY <2>1, <2>2, PlainTaken DEF Plain, DeployAccountFields
  <2>4. h = g ++ e
    BY <1>1, <1>2, <2>1, <2>2
    DEF FieldsByType, deploy_account_to_internal_tx, deploy_account_v1_to_internal_tx
  <2>5. RpcFields(t) \subseteq DOMAIN h /\ \A f \in RpcFields(t) : h[f] = Internal(t, f)
    <3>1. DOMAIN g \subseteq DOMAIN h /\ \A f \in DOMAIN g : h[f] = g[f]
      BY <2>4 DEF ++
    <3> QED BY <2>3, <3>1
  <2> QED BY <1>1, <2>1, <2>5, Headed DEF DeployAccountFields
<1>3. CASE t.version = 3
  <2>1. RpcFields(t) = DeployAccountFields \cup V3Fields
    BY <1>3 DEF RpcFields, FeeFields, DeployAccountFields
  <2>2. h = Take(t, DeployAccountFields) ++ TakeV3(t)
    BY <1>1, <1>3
    DEF FieldsByType, deploy_account_to_internal_tx, deploy_account_v3_to_internal_tx
  <2>3. DOMAIN h = RpcFields(t) /\ \A f \in RpcFields(t) : h[f] = Internal(t, f)
    <3>1. DeployAccountFields \in SUBSET Plain
      BY DEF Plain, DeployAccountFields
    <3> QED BY <2>1, <2>2, <3>1, BothTaken
  <2>6. RpcFields(t) \in SUBSET DOMAIN h
    BY <2>3
  <2>7. RpcFields(t) \cap {"hash_value", "version", "type"} = {}
    BY <2>1 DEF V3Fields, DeployAccountFields
  <2> QED BY <1>1, <2>3, <2>6, <2>7, Headed
<1> QED BY <1>2, <1>3

-----------------------------------------------------------------------------
(* The answers of the hints, and the hash.                                 *)

LEMMA CommonAnswers ==
    ASSUME NEW t, NEW u, t.version \in {1, 2, 3}, Carries(u, t, AccountFields(t))
    PROVE  /\ DOMAIN CommonFields(u) = {"nonce", "signature", "max_fee"} \cup V3Fields
           /\ \A f \in DOMAIN CommonFields(u) :
                 CommonFields(u)[f] =
                    IF f \in AccountFields(t) THEN HashedValue(t, f) ELSE Zero
<1>1. DOMAIN CommonFields(u) = {"nonce", "signature", "max_fee"} \cup V3Fields
  BY DEF CommonFields, V3Fields
<1>2. CommonFields(u)["nonce"] = HashedValue(t, "nonce") /\ CommonFields(u)["signature"] = HashedValue(t, "signature")
  BY PlainHashed DEF CommonFields, Carries, AccountFields, tx_nonce, gen_signature_arg, Some, Plain
<1>3. CASE t.version < 3
  <2>1. AccountFields(t) = {"nonce", "signature", "max_fee"} /\ u["version"] < 3
    BY <1>3 DEF AccountFields, FeeFields, Carries
  <2>2. CommonFields(u)["max_fee"] = HashedValue(t, "max_fee")
    BY <2>1, PlainHashed DEF CommonFields, Carries, tx_max_fee, Some, Plain
  <2>3. \A f \in V3Fields : CommonFields(u)[f] = Zero
    BY <2>1 DEF V3Fields, CommonFields, tx_tip, FromV3, resource_bounds, tx_paymaster_data, tx_nonce_data_availability_mode, tx_fee_data_availability_mode
  <2> QED BY <1>1, <1>2, <2>1, <2>2, <2>3 DEF V3Fields
<1>4. CASE t.version = 3
  <2>1. AccountFields(t) = {"nonce", "signature"} \cup V3Fields /\ u["version"] = 3
    BY <1>4 DEF AccountFields, FeeFields, Carries
  <2>2. CommonFields(u)["max_fee"] = Zero
    BY <2>1 DEF CommonFields, tx_max_fee
  <2>3. CommonFields(u)["resource_bounds"] = HashedValue(t, "resource_bounds")
    BY <2>1 DEF V3Fields, CommonFields, resource_bounds, HashedValue, Carries, Internal, Rpc, resource_bounds_core_to_api, create_resource_bounds_list
  <2>4. \A f \in {"tip", "paymaster_data"} : CommonFields(u)[f] = HashedValue(t, f)
    BY <2>1 DEF V3Fields, CommonFields, tx_tip, FromV3, Some, tx_paymaster_data, HashedValue, Carries, Internal, Rpc, DaFields
  <2>5. \A f \in DaFields : CommonFields(u)[f] = HashedValue(t, f)
    BY <2>1 DEF V3Fields, CommonFields, tx_nonce_data_availability_mode, tx_fee_data_availability_mode, FromV3, Some, HashedValue, Carries, Internal, Rpc, DaFields, DaMode, da_to_felt
  <2> QED BY <1>1, <1>2, <2>1, <2>2, <2>3, <2>4, <2>5 DEF V3Fields, DaFields
<1> QED BY <1>3, <1>4

\* The deployment data of an account, which version 3 has, reads 0 before it.
LEMMA DeploymentDataAnswer ==
    ASSUME NEW t, NEW u, t.version \in {1, 2, 3}, Carries(u, t, RpcFields(t)),
           "account_deployment_data" \in RpcFields(t) <=> t.version = 3
    PROVE  tx_account_deployment_data(u) = Hashed(t, "account_deployment_data")
<1>1. CASE t.version = 3
  <2>1. tx_account_deployment_data(u) = Internal(t, "account_deployment_data")
    BY <1>1 DEF Carries, tx_account_deployment_data, FromV3, Some
  <2> QED BY <1>1, <2>1, PlainHashed DEF Hashed, Plain
<1>2. CASE t.version # 3
  BY <1>2 DEF Carries, tx_account_deployment_data, FromV3, Hashed
<1> QED BY <1>1, <1>2

\* The OS computes the hash of the transaction from the answers of the hints.
LEMMA InvokeHashed ==
    ASSUME NEW t, t.type = "INVOKE_FUNCTION", t.version \in {1, 3}
    PROVE  assert_transaction_hash(t, starknet_rs_tx_to_internal_tx(t))
<1>1. PICK u : u = starknet_rs_tx_to_internal_tx(t)
  OBVIOUS
<1>2. RpcFields(t) = {"sender_address", "calldata"} \cup AccountFields(t)
                        \cup (IF t.version = 3 THEN {"account_deployment_data"} ELSE {})
  BY DEF RpcFields, AccountFields
<1>3. Carries(u, t, RpcFields(t)) /\ Carries(u, t, AccountFields(t))
  BY <1>1, <1>2, InvokeCarried DEF Carries
<1>4. PICK a, b, answers :
        /\ a = CommonFields(u)
        /\ b = [sender_address |-> contract_address(u), calldata |-> tx_calldata(u),
                account_deployment_data |-> tx_account_deployment_data(u)]
        /\ answers = a ++ b
  OBVIOUS
<1>5. HintAnswers(u) = answers
  BY <1>3, <1>4 DEF HintAnswers, Carries
<1>6. /\ DOMAIN a = {"nonce", "signature", "max_fee"} \cup V3Fields
      /\ \A f \in DOMAIN a : a[f] = Hashed(t, f)
  BY <1>2, <1>3, <1>4, CommonAnswers DEF Hashed, V3Fields
<1>7. /\ DOMAIN b = {"sender_address", "calldata", "account_deployment_data"}
      /\ \A f \in DOMAIN b : b[f] = Hashed(t, f)
  <2>1. b["sender_address"] = Hashed(t, "sender_address") /\ b["calldata"] = Hashed(t, "calldata")
    BY <1>2, <1>3, <1>4, PlainHashed
    DEF Carries, contract_address, tx_calldata, Some, Hashed, Plain
  <2>2. "account_deployment_data" \in RpcFields(t) <=> t.version = 3
    BY <1>2 DEF AccountFields, FeeFields, V3Fields
  <2>3. b["account_deployment_data"] = Hashed(t, "account_deployment_data")
    BY <1>3, <1>4, <2>2, DeploymentDataAnswer
  <2> QED BY <1>4, <2>1, <2>3
<1>8. /\ DOMAIN answers = DOMAIN a \cup DOMAIN b
      /\ \A f \in DOMAIN answers : answers[f] = Hashed(t, f)
  <2>1. /\ DOMAIN answers = DOMAIN a \cup DOMAIN b
        /\ \A f \in DOMAIN answers :
              answers[f] = IF f \in DOMAIN a THEN a[f] ELSE b[f]
    BY <1>4 DEF ++
  <2> QED BY <2>1, <1>6, <1>7
<1>9. RpcFields(t) \subseteq DOMAIN answers
  BY <1>2, <1>6, <1>7, <1>8 DEF AccountFields, FeeFields
<1> QED BY <1>1, <1>5, <1>8, <1>9 DEF assert_transaction_hash

LEMMA L1HandlerHashed ==
    ASSUME NEW t, t.type = "L1_HANDLER"
    PROVE  assert_transaction_hash(t, starknet_rs_tx_to_internal_tx(t))
<1>1. PICK u : u = starknet_rs_tx_to_internal_tx(t)
  OBVIOUS
<1>2. RpcFields(t) = {"contract_address", "entry_point_selector", "calldata", "nonce"}
  BY DEF RpcFields
<1>3. Carries(u, t, RpcFields(t))
  BY <1>1, L1HandlerCarried
<1>4. PICK answers : answers = HintAnswers(u)
  OBVIOUS
<1>5. answers = [contract_address |-> contract_address(u), calldata |-> tx_calldata(u),
                 entry_point_selector |-> tx_entry_point_selector(u),
                 nonce |-> set_ap_to_tx_nonce(u)]
  BY <1>3, <1>4 DEF HintAnswers, Carries
<1>6. \A f \in RpcFields(t) : u[f] = Hashed(t, f)
  BY <1>2, <1>3, PlainHashed DEF Carries, Hashed, Plain
<1>7. DOMAIN answers = RpcFields(t) /\ \A f \in DOMAIN answers : answers[f] = Hashed(t, f)
  BY <1>2, <1>3, <1>5, <1>6
  DEF Carries, contract_address, tx_calldata, tx_entry_point_selector,
      set_ap_to_tx_nonce, Some
<1> QED BY <1>1, <1>4, <1>7 DEF assert_transaction_hash

LEMMA DeclareHashed ==
    ASSUME NEW t, t.type = "DECLARE", t.version \in {1, 2, 3}
    PROVE  assert_transaction_hash(t, starknet_rs_tx_to_internal_tx(t))
<1>1. PICK u : u = starknet_rs_tx_to_internal_tx(t)
  OBVIOUS
<1>2. RpcFields(t) = {"sender_address", "class_hash"} \cup AccountFields(t)
                        \cup (IF t.version > 1 THEN {"compiled_class_hash"} ELSE {})
                        \cup (IF t.version = 3 THEN {"account_deployment_data"} ELSE {})
  BY DEF RpcFields, AccountFields
<1>3. /\ Carries(u, t, RpcFields(t)) /\ Carries(u, t, AccountFields(t))
      /\ t.version = 1 => "compiled_class_hash" \notin DOMAIN u
  BY <1>1, <1>2, DeclareCarried DEF Carries
<1>4. PICK a, b, c, d, answers :
        /\ a = CommonFields(u)
        /\ b = gen_class_hash_arg(u)
        /\ c = [account_deployment_data |-> tx_account_deployment_data(u)]
        /\ d = a ++ b
        /\ answers = d ++ c
  OBVIOUS
<1>5. HintAnswers(u) = answers
  BY <1>3, <1>4 DEF HintAnswers, Carries
<1>6. /\ DOMAIN a = {"nonce", "signature", "max_fee"} \cup V3Fields
      /\ \A f \in DOMAIN a : a[f] = Hashed(t, f)
  BY <1>2, <1>3, <1>4, CommonAnswers DEF Hashed, V3Fields
<1>7. /\ DOMAIN b = {"sender_address", "class_hash", "compiled_class_hash"}
      /\ \A f \in DOMAIN b : b[f] = Hashed(t, f)
  <2>1. /\ b["sender_address"] = Hashed(t, "sender_address")
        /\ b["class_hash"] = Hashed(t, "class_hash")
    BY <1>2, <1>3, <1>4, PlainHashed DEF Carries, gen_class_hash_arg, Some, Hashed, Plain
  <2>2. "compiled_class_hash" \in RpcFields(t) <=> t.version > 1
    BY <1>2 DEF AccountFields, FeeFields, V3Fields
  <2>3. b["compiled_class_hash"] = Hashed(t, "compiled_class_hash")
    BY <1>3, <1>4, <2>2, PlainHashed DEF Carries, gen_class_hash_arg, Some, Hashed, Plain
  <2> QED BY <1>4, <2>1, <2>3 DEF gen_class_hash_arg
<1>8. /\ DOMAIN c = {"account_deployment_data"}
      /\ \A f \in DOMAIN c : c[f] = Hashed(t, f)
  <2>1. "account_deployment_data" \in RpcFields(t) <=> t.version = 3
    BY <1>2 DEF AccountFields, FeeFields, V3Fields
  <2> QED BY <1>3, <1>4, <2>1, DeploymentDataAnswer
<1>9. DOMAIN d = DOMAIN a \cup DOMAIN b /\ \A f \in DOMAIN d : d[f] = Hashed(t, f)
  <2>1. /\ DOMAIN d = DOMAIN a \cup DOMAIN b
        /\ \A f \in DOMAIN d :
              d[f] = IF f \in DOMAIN a THEN a[f] ELSE b[f]
    BY <1>4 DEF ++
  <2> QED BY <2>1, <1>6, <1>7
<1>10. /\ DOMAIN answers = DOMAIN d \cup DOMAIN c
       /\ \A f \in DOMAIN answers : answers[f] = Hashed(t, f)
  <2>1. /\ DOMAIN answers = DOMAIN d \cup DOMAIN c
        /\ \A f \in DOMAIN answers :
              answers[f] = IF f \in DOMAIN d THEN d[f] ELSE c[f]
    BY <1>4 DEF ++
  <2> QED BY <2>1, <1>8, <1>9
<1>11. RpcFields(t) \subseteq DOMAIN answers
  BY <1>2, <1>6, <1>7, <1>8, <1>9, <1>10 DEF AccountFields, FeeFields
<1> QED BY <1>1, <1>5, <1>10, <1>11 DEF assert_transaction_hash

LEMMA DeployAccountHashed ==
    ASSUME NEW t, t.type = "DEPLOY_ACCOUNT", t.version \in {1, 3}
    PROVE  assert_transaction_hash(t, starknet_rs_tx_to_internal_tx(t))
<1>1. PICK u : u = starknet_rs_tx_to_internal_tx(t)
  OBVIOUS
<1>2. RpcFields(t) = {"contract_address_salt", "class_hash", "constructor_calldata"}
                        \cup AccountFields(t)
  BY DEF RpcFields, AccountFields
<1>3. Carries(u, t, RpcFields(t)) /\ Carries(u, t, AccountFields(t))
  BY <1>1, <1>2, DeployAccountCarried DEF Carries
<1>4. PICK a, b, answers :
        /\ a = CommonFields(u) /\ b = prepare_constructor_execution(u)
        /\ answers = a ++ b
  OBVIOUS
<1>5. HintAnswers(u) = answers
  BY <1>3, <1>4 DEF HintAnswers, Carries
<1>6. /\ DOMAIN a = {"nonce", "signature", "max_fee"} \cup V3Fields
      /\ \A f \in DOMAIN a : a[f] = Hashed(t, f)
  BY <1>2, <1>3, <1>4, CommonAnswers DEF Hashed, V3Fields
<1>7. /\ DOMAIN b = {"contract_address_salt", "class_hash", "constructor_calldata"}
      /\ \A f \in DOMAIN b : b[f] = Hashed(t, f)
  BY <1>2, <1>3, <1>4, PlainHashed
  DEF Carries, prepare_constructor_execution, Some, Hashed, Plain
<1>8. /\ DOMAIN answers = DOMAIN a \cup DOMAIN b
      /\ \A f \in DOMAIN answers : answers[f] = Hashed(t, f)
  <2>1. /\ DOMAIN answers = DOMAIN a \cup DOMAIN b
        /\ \A f \in DOMAIN answers :
              answers[f] = IF f \in DOMAIN a THEN a[f] ELSE b[f]
    BY <1>4 DEF ++
  <2> QED BY <2>1, <1>6, <1>7
<1>9. RpcFields(t) \subseteq DOMAIN answers
  BY <1>2, <1>6, <1>7, <1>8 DEF AccountFields, FeeFields
<1> QED BY <1>1, <1>5, <1>8, <1>9 DEF assert_transaction_hash

-----------------------------------------------------------------------------
(* Into a transaction of blockifier.                                       *)

\* Blockifier gets the fields it needs.
LEMMA ForBlockifier ==
    ASSUME NEW t, NEW S, NEW h, h = Take(t, S) ++ TakeV3ForBlockifier(t)
    PROVE  DOMAIN h = S \cup V3Fields
<1>1. PICK a, b : a = Take(t, S) /\ b = TakeV3ForBlockifier(t)
  OBVIOUS
<1>2. DOMAIN a = S /\ DOMAIN b = V3Fields
  BY <1>1 DEF Take, TakeV3ForBlockifier
<1>3. h = a ++ b
  BY <1>1
<1> QED BY <1>2, <1>3 DEF ++

LEMMA InvokeExecutable ==
    ASSUME NEW t, NEW gas, t.type = "INVOKE_FUNCTION", t.version \in {1, 3}
    PROVE  IsExecutable(t, starknet_rs_to_blockifier(t, gas))
<1>1. PICK a, h : a = [tx_hash |-> t.id] /\ h = invoke_to_blockifier(t)
  OBVIOUS
<1>2. RpcFields(t) \subseteq DOMAIN h
  <2>1. CASE t.version = 1
    BY <1>1, <2>1 DEF invoke_to_blockifier, invoke_v1_to_blockifier, Take, RpcFields, FeeFields
  <2>2. CASE t.version = 3
    <3>1. DOMAIN h = {"signature", "nonce", "sender_address", "calldata",
                      "account_deployment_data"} \cup V3Fields
      BY <1>1, <2>2, ForBlockifier DEF invoke_to_blockifier, invoke_v3_to_blockifier
    <3> QED BY <2>2, <3>1 DEF RpcFields, FeeFields
  <2> QED BY <2>1, <2>2
<1>3. starknet_rs_to_blockifier(t, gas) = a ++ h
  BY <1>1 DEF starknet_rs_to_blockifier
<1>4. DOMAIN h \subseteq DOMAIN (a ++ h)
  BY DEF ++
<1> QED BY <1>2, <1>3, <1>4 DEF IsExecutable

LEMMA DeclareExecutable ==
    ASSUME NEW t, NEW gas, t.type = "DECLARE", t.version \in {1, 2, 3}
    PROVE  IsExecutable(t, starknet_rs_to_blockifier(t, gas))
<1>1. PICK a, h : a = [tx_hash |-> t.id] /\ h = declare_to_blockifier(t)
  OBVIOUS
<1>2. RpcFields(t) \subseteq DOMAIN h
  <2>1. CASE t.version = 1
    BY <1>1, <2>1 DEF declare_to_blockifier, declare_v1_to_blockifier, Take, RpcFields, FeeFields
  <2>2. CASE t.version = 2
    BY <1>1, <2>2 DEF declare_to_blockifier, declare_v2_to_blockifier, Take, RpcFields, FeeFields
  <2>3. CASE t.version = 3
    <3>1. DOMAIN h = {"signature", "nonce", "class_hash", "compiled_class_hash",
                      "sender_address", "account_deployment_data"} \cup V3Fields
      BY <1>1, <2>3, ForBlockifier DEF declare_to_blockifier, declare_v3_to_blockifier
    <3> QED BY <2>3, <3>1 DEF RpcFields, FeeFields
  <2> QED BY <2>1, <2>2, <2>3
<1>3. starknet_rs_to_blockifier(t, gas) = a ++ h
  BY <1>1 DEF starknet_rs_to_blockifier
<1>4. DOMAIN h \subseteq DOMAIN (a ++ h)
  BY DEF ++
<1> QED BY <1>2, <1>3, <1>4 DEF IsExecutable

LEMMA DeployAccountExecutable ==
    ASSUME NEW t, NEW gas, t.type = "DEPLOY_ACCOUNT", t.version \in {1, 3}
    PROVE  IsExecutable(t, starknet_rs_to_blockifier(t, gas))
<1>1. PICK a, h : a = [tx_hash |-> t.id] /\ h = deploy_account_to_blockifier(t)
  OBVIOUS
<1>2. RpcFields(t) \subseteq DOMAIN h
  <2>1. PICK e : e = DeployedAccount(t)
    OBVIOUS
  <2>2. CASE t.version = 1
    <3>1. PICK g : g = Take(t, DeployAccountFields \cup {"max_fee"})
      OBVIOUS
    <3>2. h = g ++ e
      BY <1>1, <2>1, <2>2, <3>1
      DEF deploy_account_to_blockifier, deploy_account_v1_to_blockifier
    <3>3. RpcFields(t) \subseteq DOMAIN g
      BY <2>2, <3>1 DEF Take, DeployAccountFields, RpcFields, FeeFields
    <3>4. DOMAIN g \subseteq DOMAIN h
      BY <3>2 DEF ++
    <3> QED BY <3>3, <3>4
  <2>3. CASE t.version = 3
    <3>1. PICK g : g = Take(t, DeployAccountFields) ++ TakeV3ForBlockifier(t)
      OBVIOUS
    <3>2. h = g ++ e
      BY <1>1, <2>1, <2>3, <3>1
      DEF deploy_account_to_blockifier, deploy_account_v3_to_blockifier
    <3>3. DOMAIN g = DeployAccountFields \cup V3Fields
      BY <3>1, ForBlockifier
    <3>4. RpcFields(t) \subseteq DOMAIN g
      BY <2>3, <3>3 DEF DeployAccountFields, RpcFields, FeeFields
    <3>5. DOMAIN g \subseteq DOMAIN h
      BY <3>2 DEF ++
    <3> QED BY <3>4, <3>5
  <2> QED BY <2>2, <2>3
<1>3. starknet_rs_to_blockifier(t, gas) = a ++ h
  BY <1>1 DEF starknet_rs_to_blockifier
<1>4. DOMAIN h \subseteq DOMAIN (a ++ h)
  BY DEF ++
<1> QED BY <1>2, <1>3, <1>4 DEF IsExecutable

LEMMA L1HandlerExecutable ==
    ASSUME NEW t, NEW gas \in Gas, t.type = "L1_HANDLER"
    PROVE  IsExecutable(t, starknet_rs_to_blockifier(t, gas))
<1>1. paid_fee_on_l1(gas) > 0
  BY DEF Gas, paid_fee_on_l1, GasPrice, DataGasPrice, DefaultL1Fee
<1> QED BY <1>1
    DEF IsExecutable, starknet_rs_to_blockifier, l1_handler_to_blockifier, Take, ++, RpcFields

-----------------------------------------------------------------------------
\* Of every transaction that rpc-replay accepts, blockifier gets the fields it
\* needs and a fee for an L1 handler; every hint of the OS finds its field; and
\* the hash the OS computes from their answers is the one of the transaction.
THEOREM TransactionArrives ==
    ASSUME NEW t, <<t.type, t.version>> \in Kinds, IsReplayable(t),
           t.gas \in Gas
    PROVE  /\ IsExecutable(t, starknet_rs_to_blockifier(t, t.gas))
           /\ assert_transaction_hash(t, starknet_rs_tx_to_internal_tx(t))
           /\ starknet_rs_tx_to_internal_tx(t)["hash_value"] = t.id
<1>1. \/ t.type = "INVOKE_FUNCTION" /\ t.version \in {1, 3}
      \/ t.type = "L1_HANDLER"
      \/ t.type = "DECLARE" /\ t.version \in {1, 2, 3}
      \/ t.type = "DEPLOY_ACCOUNT" /\ t.version \in {1, 3}
  BY DEF Kinds, IsReplayable
<1>2. starknet_rs_tx_to_internal_tx(t)["hash_value"] = t.id
  BY DEF starknet_rs_tx_to_internal_tx, ++
<1>3. CASE t.type = "INVOKE_FUNCTION" /\ t.version \in {1, 3}
  BY <1>2, <1>3, InvokeExecutable, InvokeHashed
<1>4. CASE t.type = "L1_HANDLER"
  BY <1>2, <1>4, L1HandlerExecutable, L1HandlerHashed
<1>5. CASE t.type = "DECLARE" /\ t.version \in {1, 2, 3}
  BY <1>2, <1>5, DeclareExecutable, DeclareHashed
<1>6. CASE t.type = "DEPLOY_ACCOUNT" /\ t.version \in {1, 3}
  BY <1>2, <1>6, DeployAccountExecutable, DeployAccountHashed
<1> QED BY <1>1, <1>3, <1>4, <1>5, <1>6

-----------------------------------------------------------------------------
(* Places of a block: before step n of transaction m.                      *)

Parts == {"validate", "execute", "fee", "constructor", "declare"}
Ops == {"call", "library", "deploy", "replace", "declare"}
Types == {"INVOKE_FUNCTION", "L1_HANDLER", "DECLARE", "DEPLOY_ACCOUNT", "DEPLOY"}
StepOf == [part : Parts, op : Ops, contract : Contract,
           class : Class \cup {NoClass}, caller : Class \cup {NoClass}]
Tx == [type : Types, version : 0 .. 3, id : Nat, steps : Seq(StepOf),
       reverted : BOOLEAN, gas : Gas]

Earlier(i, j, m, n) == i < m \/ (i = m /\ j < n)

\* A step that gives contract c its class.
Gives(st, c) == st.op \in {"deploy", "replace"} /\ st.contract = c

\* Contract c has class k at a place: the last step before it that gives c a
\* class gives it k, or there is none, and c has k from before the block.
ClassBefore(b, first, m, n, c, k) ==
    \/ /\ k = first[c]
       /\ \A i \in DOMAIN b : \A j \in DOMAIN b[i].steps :
             Gives(b[i].steps[j], c) => ~Earlier(i, j, m, n)
    \/ \E i \in DOMAIN b : \E j \in DOMAIN b[i].steps :
          /\ Gives(b[i].steps[j], c) /\ Earlier(i, j, m, n)
          /\ b[i].steps[j].class = k
          /\ \A g \in DOMAIN b : \A h \in DOMAIN b[g].steps :
                Gives(b[g].steps[h], c) /\ Earlier(g, h, m, n)
                    => ~Earlier(i, j, g, h)

\* Class k is declared by a step before a place.
DeclaredBefore(b, m, n, k) ==
    \E i \in DOMAIN b : \E j \in DOMAIN b[i].steps :
        /\ b[i].steps[j].op = "declare" /\ b[i].steps[j].class = k
        /\ Earlier(i, j, m, n)

\* The length of a sequence is a number, and its domain ends there.
LEMMA Indexed ==
    ASSUME NEW S, NEW s \in Seq(S)
    PROVE  /\ Len(s) \in Nat /\ DOMAIN s = 1 .. Len(s)
           /\ \A i \in DOMAIN s : s[i] \in S /\ i \in Nat
  OBVIOUS

LEMMA BlockIndexed ==
    ASSUME NEW b \in Seq(Tx)
    PROVE  /\ Len(b) \in Nat /\ DOMAIN b = 1 .. Len(b)
           /\ \A i \in DOMAIN b :
                /\ i \in Nat /\ b[i] \in Tx /\ Len(b[i].steps) \in Nat
                /\ DOMAIN b[i].steps = 1 .. Len(b[i].steps)
                /\ \A j \in DOMAIN b[i].steps : j \in Nat /\ b[i].steps[j] \in StepOf
<1>1. Len(b) \in Nat /\ DOMAIN b = 1 .. Len(b)
  BY Indexed
<1>2. ASSUME NEW i \in DOMAIN b
      PROVE  /\ i \in Nat /\ b[i] \in Tx /\ Len(b[i].steps) \in Nat
             /\ DOMAIN b[i].steps = 1 .. Len(b[i].steps)
             /\ \A j \in DOMAIN b[i].steps : j \in Nat /\ b[i].steps[j] \in StepOf
  <2>1. i \in Nat /\ b[i] \in Tx
    BY Indexed
  <2>2. b[i].steps \in Seq(StepOf)
    BY <2>1 DEF Tx
  <2> QED BY <2>1, <2>2, Indexed
<1> QED BY <1>1, <1>2

\* A contract has one class at a place.
LEMMA ClassUnique ==
    ASSUME NEW b \in Seq(Tx), NEW first, NEW m \in Nat, NEW n \in Nat, NEW c,
           NEW k, NEW l, ClassBefore(b, first, m, n, c, k),
           ClassBefore(b, first, m, n, c, l)
    PROVE  k = l
  BY BlockIndexed DEF ClassBefore, Earlier

\* The class depends on the steps before a place that give the contract one.
LEMMA ClassMoved ==
    ASSUME NEW b, NEW first, NEW m, NEW n, NEW p, NEW q, NEW c, NEW k,
           ClassBefore(b, first, m, n, c, k),
           \A i \in DOMAIN b : \A j \in DOMAIN b[i].steps :
               Gives(b[i].steps[j], c) =>
                   (Earlier(i, j, m, n) <=> Earlier(i, j, p, q))
    PROVE  ClassBefore(b, first, p, q, c, k)
  BY DEF ClassBefore

\* A step that gives c nothing leaves it its class, ...
LEMMA ClassKept ==
    ASSUME NEW b \in Seq(Tx), NEW first, NEW m \in DOMAIN b,
           NEW n \in DOMAIN b[m].steps, NEW c, NEW k,
           ClassBefore(b, first, m, n, c, k), ~Gives(b[m].steps[n], c)
    PROVE  ClassBefore(b, first, m, n + 1, c, k)
<1>1. ASSUME NEW i \in DOMAIN b, NEW j \in DOMAIN b[i].steps,
             Gives(b[i].steps[j], c)
      PROVE  Earlier(i, j, m, n) <=> Earlier(i, j, m, n + 1)
  BY <1>1, BlockIndexed DEF Earlier
<1> QED BY <1>1, ClassMoved

\* ... and one that gives it a class changes it.
LEMMA ClassGiven ==
    ASSUME NEW b \in Seq(Tx), NEW first, NEW m \in DOMAIN b,
           NEW n \in DOMAIN b[m].steps, NEW c, Gives(b[m].steps[n], c)
    PROVE  ClassBefore(b, first, m, n + 1, c, b[m].steps[n].class)
  BY BlockIndexed DEF ClassBefore, Earlier

\* The end of a transaction is the beginning of the next.
LEMMA ClassCarried ==
    ASSUME NEW b \in Seq(Tx), NEW first, NEW m \in DOMAIN b, NEW c, NEW k,
           ClassBefore(b, first, m, Len(b[m].steps) + 1, c, k)
    PROVE  ClassBefore(b, first, m + 1, 1, c, k)
<1>1. ASSUME NEW i \in DOMAIN b, NEW j \in DOMAIN b[i].steps
      PROVE  Earlier(i, j, m, Len(b[m].steps) + 1) <=> Earlier(i, j, m + 1, 1)
  BY BlockIndexed DEF Earlier
<1> QED BY <1>1, ClassMoved

\* What holds of the places of a block holds when it has grown.
LEMMA Appended ==
    ASSUME NEW b \in Seq(Tx), NEW t \in Tx, NEW a, a = Append(b, t)
    PROVE  /\ a \in Seq(Tx) /\ Len(a) = Len(b) + 1
           /\ DOMAIN a = DOMAIN b \cup {Len(b) + 1}
           /\ \A i \in DOMAIN b : a[i] = b[i] /\ i # Len(b) + 1 /\ i <= Len(b)
           /\ a[Len(b) + 1] = t
<1>1. Len(b) \in Nat /\ DOMAIN b = 1 .. Len(b)
  BY Indexed
<1>2. a \in Seq(Tx) /\ Len(a) = Len(b) + 1
  OBVIOUS
<1>3. DOMAIN a = 1 .. Len(b) + 1
  BY <1>1, <1>2, Indexed
<1>4. \A i \in 1 .. Len(b) : a[i] = b[i]
  BY <1>1
<1>5. a[Len(b) + 1] = t
  BY <1>1
<1> QED BY <1>1, <1>2, <1>3, <1>4, <1>5

LEMMA ClassStays ==
    ASSUME NEW b \in Seq(Tx), NEW t \in Tx, NEW a, a = Append(b, t), NEW first,
           NEW m \in DOMAIN b, NEW n \in Nat, NEW c, NEW k,
           ClassBefore(b, first, m, n, c, k)
    PROVE  ClassBefore(a, first, m, n, c, k)
<1>1. \A i \in DOMAIN a : \A j \in DOMAIN a[i].steps :
          Earlier(i, j, m, n) => i \in DOMAIN b
  BY Appended, BlockIndexed DEF Earlier
<1> QED BY <1>1, Appended DEF ClassBefore

LEMMA DeclaredStays ==
    ASSUME NEW b \in Seq(Tx), NEW t \in Tx, NEW a, a = Append(b, t),
           NEW m \in DOMAIN b, NEW n \in Nat, NEW k
    PROVE  DeclaredBefore(a, m, n, k) <=> DeclaredBefore(b, m, n, k)
<1>1. \A i \in DOMAIN a : \A j \in DOMAIN a[i].steps :
          Earlier(i, j, m, n) => i \in DOMAIN b
  BY Appended, BlockIndexed DEF Earlier
<1> QED BY <1>1, Appended DEF DeclaredBefore

\* In a new transaction, a contract has its class until a step gives it one.
LEMMA ClassNow ==
    ASSUME NEW b \in Seq(Tx), NEW t \in Tx, NEW a, a = Append(b, t), NEW first,
           NEW n \in Nat, NEW c, NEW k,
           ClassBefore(b, first, Len(b) + 1, 1, c, k),
           \A j \in DOMAIN t.steps : Gives(t.steps[j], c) => n <= j
    PROVE  ClassBefore(a, first, Len(b) + 1, n, c, k)
<1>1. \A i \in DOMAIN b : \A j \in DOMAIN b[i].steps :
          Earlier(i, j, Len(b) + 1, 1) /\ Earlier(i, j, Len(b) + 1, n)
  BY BlockIndexed DEF Earlier
<1>2. t.steps \in Seq(StepOf)
  BY DEF Tx
<1>3. \A j \in DOMAIN t.steps : Gives(t.steps[j], c) =>
          ~Earlier(Len(b) + 1, j, Len(b) + 1, n)
  BY <1>2, Indexed, BlockIndexed DEF Earlier
<1> QED BY <1>1, <1>3, Appended DEF ClassBefore

LEMMA ClassNew ==
    ASSUME NEW b \in Seq(Tx), NEW t \in Tx, NEW a, a = Append(b, t), NEW first,
           NEW n \in Nat, NEW c, NEW i \in DOMAIN t.steps,
           Gives(t.steps[i], c), i < n,
           \A j \in DOMAIN t.steps : Gives(t.steps[j], c) => j = i
    PROVE  ClassBefore(a, first, Len(b) + 1, n, c, t.steps[i].class)
<1>1. t.steps \in Seq(StepOf) /\ i \in Nat /\ Len(b) \in Nat
  BY Indexed DEF Tx
<1>2. \A g \in DOMAIN b : \A h \in DOMAIN b[g].steps :
          ~Earlier(Len(b) + 1, i, g, h)
  BY <1>1, BlockIndexed DEF Earlier
<1>3. /\ Earlier(Len(b) + 1, i, Len(b) + 1, n)
      /\ ~Earlier(Len(b) + 1, i, Len(b) + 1, i)
  BY <1>1 DEF Earlier
<1> QED BY <1>2, <1>3, Appended DEF ClassBefore

-----------------------------------------------------------------------------
(* The network.                                                            *)

RunOps == {"call", "library", "deploy"}

NetworkTypes ==
    /\ prevClass \in [Contract -> OldClasses \cup {NoClass}]
    /\ class \in [Contract -> declared \cup {NoClass}]
    /\ class[FeeToken] # NoClass
    /\ OldClasses \subseteq declared /\ declared \subseteq Class
    /\ block \in Seq(Tx)
    /\ \A i \in DOMAIN block : <<block[i].type, block[i].version>> \in Kinds

\* The state of the network is the one at the end of the block so far.
ClassesNow ==
    \A c \in Contract :
        ClassBefore(block, prevClass, Len(block) + 1, 1, c, class[c])
DeclaredNow ==
    \A k \in Class :
        k \in declared <=>
            k \in OldClasses \/ DeclaredBefore(block, Len(block) + 1, 1, k)

\* Step j of transaction i was taken in the state of its place: with the
\* class the contract has there, declared before; what it runs is in a part
\* of the trace that is visited; and what it declares is new.
StepMeant(b, first, i, j) ==
    LET st == b[i].steps[j] IN
    /\ st.op \in Ops
    /\ st.op = "call" => ClassBefore(b, first, i, j, st.contract, st.class)
    /\ st.op = "deploy" => ClassBefore(b, first, i, j, st.contract, NoClass)
    /\ st.op # "declare" =>
          /\ st.class \in Class
          /\ st.class \in OldClasses \/ DeclaredBefore(b, i, j, st.class)
    /\ st.op \in RunOps => st.part \in VisitedParts(b[i])
    /\ st.op = "declare" =>
          /\ st.class \in Class \ OldClasses
          /\ ~DeclaredBefore(b, i, j, st.class)
          /\ st.class \in Sierra <=> b[i].version >= 2

StepsMeant ==
    \A i \in DOMAIN block : \A j \in DOMAIN block[i].steps :
        StepMeant(block, prevClass, i, j)

NetworkInv == NetworkTypes /\ ClassesNow /\ DeclaredNow /\ StepsMeant

\* The steps of a transaction that the network takes next: at most one gives
\* a contract a class, at most one declares one.
StepsFit(t) ==
    /\ \A i \in DOMAIN t.steps : \A j \in DOMAIN t.steps :
          /\ /\ t.steps[i].op \in {"deploy", "replace"}
             /\ t.steps[j].op \in {"deploy", "replace"}
             => i = j
          /\ t.steps[i].op = "declare" /\ t.steps[j].op = "declare" => i = j
    /\ \A j \in DOMAIN t.steps :
          LET st == t.steps[j] IN
          /\ st.op \in Ops
          /\ st.op = "call" =>
                \/ /\ st.class = class[st.contract]
                   /\ \A i \in DOMAIN t.steps :
                         Gives(t.steps[i], st.contract) => j <= i
                \/ \E i \in DOMAIN t.steps :
                      /\ i < j /\ Gives(t.steps[i], st.contract)
                      /\ st.class = t.steps[i].class
          /\ st.op = "deploy" => class[st.contract] = NoClass
          /\ st.op # "declare" => st.class \in declared
          /\ st.op \in RunOps => st.part \in VisitedParts(t)
          /\ st.op = "declare" =>
                /\ st.class \in Class \ declared
                /\ st.class \in Sierra <=> t.version >= 2

\* After is the class at the end of the steps.
LEMMA AfterGives ==
    ASSUME NEW t \in Tx, StepsFit(t), NEW c \in Contract,
           NEW i \in DOMAIN t.steps, Gives(t.steps[i], c)
    PROVE  After(t.steps)[c] = t.steps[i].class
<1> DEFINE changes == {j \in DOMAIN t.steps : /\ t.steps[j].op \in {"deploy", "replace"}
                                             /\ t.steps[j].contract = c}
<1>1. changes = {i}
  BY DEF StepsFit, Gives
<1>2. i \in Nat
  BY Indexed DEF Tx
<1>3. (CHOOSE g \in changes : \A j \in changes : j <= g) = i
  <2>1. \E g \in changes : \A j \in changes : j <= g
    BY <1>1, <1>2
  <2>2. (CHOOSE g \in changes : \A j \in changes : j <= g) \in changes
    BY <2>1, Zenon
  <2> QED BY <2>2, <1>1
<1>4. After(t.steps)[c] =
        IF changes = {} THEN class[c]
        ELSE t.steps[CHOOSE g \in changes : \A j \in changes : j <= g].class
  BY DEF After
<1> HIDE DEF changes
<1> QED BY <1>1, <1>3, <1>4

LEMMA AfterKeeps ==
    ASSUME NEW t, NEW c \in Contract,
           \A i \in DOMAIN t.steps : ~Gives(t.steps[i], c)
    PROVE  After(t.steps)[c] = class[c]
<1> DEFINE changes == {j \in DOMAIN t.steps : /\ t.steps[j].op \in {"deploy", "replace"}
                                             /\ t.steps[j].contract = c}
<1>1. changes = {}
  BY DEF Gives
<1>4. After(t.steps)[c] =
        IF changes = {} THEN class[c]
        ELSE t.steps[CHOOSE g \in changes : \A j \in changes : j <= g].class
  BY DEF After
<1> HIDE DEF changes
<1> QED BY <1>1, <1>4

\* A transaction whose steps fit keeps the network in step with the block.
LEMMA SequenceStep ==
    ASSUME NetworkInv, NEW type, NEW version, NEW steps, NEW reverted, NEW gas,
           NEW t \in Tx,
           t = [type |-> type, version |-> version, id |-> Len(block) + 1,
                steps |-> steps, reverted |-> reverted, gas |-> gas],
           Sequence(type, version, steps, reverted, gas),
           <<type, version>> \in Kinds, StepsFit(t)
    PROVE  NetworkInv'
<1> USE DEF NetworkInv
<1>0. /\ t.steps = steps /\ t.version = version /\ t.type = type
      /\ steps \in Seq(StepOf) /\ DOMAIN steps = 1 .. Len(steps) /\ Len(steps) \in Nat
      /\ block \in Seq(Tx) /\ Len(block) \in Nat
  <2>1. t.steps = steps /\ t.version = version /\ t.type = type
    OBVIOUS
  <2>2. steps \in Seq(StepOf)
    BY <2>1 DEF Tx
  <2> QED BY <2>1, <2>2, Indexed DEF NetworkTypes
<1>1. /\ block' = Append(block, t) /\ class' = After(steps)
      /\ prevClass' = prevClass
      /\ declared' = declared \cup {steps[i].class : i \in {j \in DOMAIN steps :
                                                      steps[j].op = "declare"}}
  BY DEF Sequence
<1>2. /\ block' \in Seq(Tx) /\ Len(block') = Len(block) + 1
      /\ DOMAIN block' = DOMAIN block \cup {Len(block) + 1}
      /\ \A i \in DOMAIN block : block'[i] = block[i] /\ i # Len(block) + 1
      /\ block'[Len(block) + 1] = t
  BY <1>0, <1>1, Appended
<1>3. \A k \in Class : k \in declared' <=>
          k \in declared \/ \E j \in DOMAIN steps :
                              steps[j].op = "declare" /\ steps[j].class = k
  BY <1>1
<1>4. \A j \in DOMAIN steps : steps[j] \in StepOf /\ j \in Nat
  BY <1>0, Indexed
<1>5. \A c \in Contract : \A i \in DOMAIN steps :
          Gives(steps[i], c) => class'[c] = steps[i].class
  BY <1>0, <1>1, AfterGives
<1>6. \A c \in Contract :
          (\A i \in DOMAIN steps : ~Gives(steps[i], c)) => class'[c] = class[c]
  BY <1>0, <1>1, AfterKeeps
<1>7. NetworkTypes'
  <2>1. \A c \in Contract : class'[c] \in declared \cup {NoClass}
    BY <1>5, <1>6, <1>0, <1>4 DEF StepsFit, Gives, NetworkTypes
  <2>2. declared \subseteq declared' /\ declared' \subseteq Class
    BY <1>1, <1>0, <1>4, ProveBlockAssumption DEF StepsFit, NetworkTypes
  <2>3. class' \in [Contract -> declared' \cup {NoClass}]
    <3>1. class' = [c \in Contract |-> class'[c]]
      BY <1>1 DEF After
    <3> QED BY <3>1, <2>1, <2>2
  <2>4. class'[FeeToken] # NoClass
    <3>1. \A i \in DOMAIN steps : Gives(steps[i], FeeToken) => steps[i].class # NoClass
      BY <1>0, ProveBlockAssumption DEF StepsFit, Gives, NetworkTypes
    <3> QED BY <3>1, <1>5, <1>6, ProveBlockAssumption DEF NetworkTypes
  <2>5. \A i \in DOMAIN block' : <<block'[i].type, block'[i].version>> \in Kinds
    BY <1>0, <1>2 DEF NetworkTypes
  <2> QED BY <1>1, <1>2, <2>2, <2>3, <2>4, <2>5 DEF NetworkTypes
<1>8. ASSUME NEW c \in Contract
      PROVE  ClassBefore(block', prevClass', Len(block') + 1, 1, c, class'[c])
  <2>1. ClassBefore(block', prevClass, Len(block) + 1, Len(steps) + 1, c, class'[c])
    <3>1. CASE \E i \in DOMAIN steps : Gives(steps[i], c)
      <4>1. PICK i \in DOMAIN steps : Gives(steps[i], c)
        BY <3>1
      <4>2. class'[c] = steps[i].class
        BY <4>1, <1>5
      <4>3. i < Len(steps) + 1 /\ Len(steps) + 1 \in Nat
        BY <1>0
      <4>4. \A j \in DOMAIN steps : Gives(steps[j], c) => j = i
        BY <4>1, <1>0 DEF StepsFit, Gives
      <4> QED BY <1>0, <1>1, <4>1, <4>2, <4>3, <4>4, ClassNew
    <3>2. CASE \A i \in DOMAIN steps : ~Gives(steps[i], c)
      <4>1. class'[c] = class[c]
        BY <3>2, <1>6
      <4>2. ClassBefore(block, prevClass, Len(block) + 1, 1, c, class[c])
        BY DEF ClassesNow
      <4>3. \A j \in DOMAIN t.steps : Gives(t.steps[j], c) => Len(steps) + 1 <= j
        BY <3>2, <1>0
      <4>4. Len(steps) + 1 \in Nat
        BY <1>0
      <4> QED BY <1>0, <1>1, <4>1, <4>2, <4>3, <4>4, ClassNow
    <3> QED BY <3>1, <3>2
  <2>2. Len(block) + 1 \in DOMAIN block' /\ block'[Len(block) + 1].steps = steps
    BY <1>0, <1>2
  <2>3. ClassBefore(block', prevClass, Len(block) + 1 + 1, 1, c, class'[c])
    BY <2>1, <2>2, <1>2, ClassCarried
  <2> QED BY <2>3, <1>1, <1>2
<1>9. ASSUME NEW k \in Class
      PROVE  k \in declared' <=>
                k \in OldClasses \/ DeclaredBefore(block', Len(block') + 1, 1, k)
  <2>1. \A i \in DOMAIN block : \A j \in DOMAIN block[i].steps :
            /\ Earlier(i, j, Len(block) + 1, 1)
            /\ Earlier(i, j, Len(block') + 1, 1)
    BY <1>0, <1>2, BlockIndexed DEF Earlier
  <2>2. \A j \in DOMAIN steps : Earlier(Len(block) + 1, j, Len(block') + 1, 1)
    BY <1>0, <1>2 DEF Earlier
  <2>3. DeclaredBefore(block', Len(block') + 1, 1, k) <=>
            \/ DeclaredBefore(block, Len(block) + 1, 1, k)
            \/ \E j \in DOMAIN steps : steps[j].op = "declare" /\ steps[j].class = k
    BY <2>1, <2>2, <1>0, <1>2 DEF DeclaredBefore
  <2> QED BY <2>3, <1>3 DEF DeclaredNow
<1>10. ASSUME NEW i \in DOMAIN block', NEW j \in DOMAIN block'[i].steps
       PROVE  StepMeant(block', prevClass', i, j)
  <2>1. CASE i \in DOMAIN block
    <3>1. block'[i] = block[i] /\ j \in DOMAIN block[i].steps /\ j \in Nat
      BY <2>1, <1>2, <1>0, BlockIndexed
    <3>2. StepMeant(block, prevClass, i, j)
      BY <3>1, <2>1 DEF StepsMeant
    <3>3. \A c, k : ClassBefore(block, prevClass, i, j, c, k) =>
                        ClassBefore(block', prevClass, i, j, c, k)
      BY <2>1, <3>1, <1>0, <1>1, ClassStays
    <3>4. \A k : DeclaredBefore(block', i, j, k) <=> DeclaredBefore(block, i, j, k)
      BY <2>1, <3>1, <1>0, <1>1, DeclaredStays
    <3> QED BY <3>1, <3>2, <3>3, <3>4, <1>1 DEF StepMeant
  <2>2. CASE i = Len(block) + 1
    <3>1. block'[i] = t /\ j \in DOMAIN steps /\ j \in Nat
      BY <2>2, <1>2, <1>0
    <3> DEFINE st == steps[j]
    <3>2. st \in StepOf /\ st.contract \in Contract
      BY <3>1, <1>4 DEF StepOf
    <3>3. ASSUME NEW k \in Class, ~(\E h \in DOMAIN steps : h < j /\ steps[h].op = "declare")
          PROVE  k \in declared <=> k \in OldClasses \/ DeclaredBefore(block', i, j, k)
      <4>1. \A g \in DOMAIN block : \A h \in DOMAIN block[g].steps :
                Earlier(g, h, Len(block) + 1, 1) /\ Earlier(g, h, i, j)
        BY <1>0, <2>2, BlockIndexed DEF Earlier
      <4>2. \A h \in DOMAIN steps : Earlier(i, h, i, j) => steps[h].op # "declare"
        BY <3>3, <1>0, <2>2 DEF Earlier
      <4>3. DeclaredBefore(block', i, j, k) <=> DeclaredBefore(block, Len(block) + 1, 1, k)
        BY <4>1, <4>2, <1>2, <2>2, <1>0 DEF DeclaredBefore
      <4> QED BY <4>3 DEF DeclaredNow
    <3>4. ASSUME NEW k \in Class, k \in declared
          PROVE  k \in OldClasses \/ DeclaredBefore(block', i, j, k)
      <4>1. \A g \in DOMAIN block : \A h \in DOMAIN block[g].steps : Earlier(g, h, i, j)
        BY <1>0, <2>2, BlockIndexed DEF Earlier
      <4>2. DeclaredBefore(block, Len(block) + 1, 1, k) => DeclaredBefore(block', i, j, k)
        BY <4>1, <1>2 DEF DeclaredBefore
      <4> QED BY <3>4, <4>2 DEF DeclaredNow
    <3>5. st.op \in Ops /\ (st.op \in RunOps => st.part \in VisitedParts(t))
      BY <3>1, <1>0 DEF StepsFit
    <3>6. ASSUME st.op = "call"
          PROVE  ClassBefore(block', prevClass, i, j, st.contract, st.class)
      <4>1. CASE /\ st.class = class[st.contract]
                 /\ \A h \in DOMAIN steps : Gives(steps[h], st.contract) => j <= h
        <5>1. ClassBefore(block, prevClass, Len(block) + 1, 1, st.contract, st.class)
          BY <4>1, <3>2 DEF ClassesNow
        <5> QED BY <5>1, <4>1, <3>1, <1>0, <1>1, <2>2, ClassNow
      <4>2. CASE \E h \in DOMAIN steps : /\ h < j /\ Gives(steps[h], st.contract)
                                         /\ st.class = steps[h].class
        <5>1. PICK h \in DOMAIN steps : /\ h < j /\ Gives(steps[h], st.contract)
                                        /\ st.class = steps[h].class
          BY <4>2
        <5>2. \A g \in DOMAIN steps : Gives(steps[g], st.contract) => g = h
          BY <5>1, <1>0 DEF StepsFit, Gives
        <5> QED BY <5>1, <5>2, <3>1, <1>0, <1>1, <2>2, ClassNew
      <4> QED BY <4>1, <4>2, <3>6, <3>1, <1>0 DEF StepsFit
    <3>7. ASSUME st.op = "deploy"
          PROVE  ClassBefore(block', prevClass, i, j, st.contract, NoClass)
      <4>1. class[st.contract] = NoClass
        BY <3>7, <3>1, <1>0 DEF StepsFit
      <4>2. ClassBefore(block, prevClass, Len(block) + 1, 1, st.contract, NoClass)
        BY <4>1, <3>2 DEF ClassesNow
      <4>3. \A h \in DOMAIN steps : Gives(steps[h], st.contract) => j <= h
        BY <3>7, <3>1, <1>0 DEF StepsFit, Gives
      <4> QED BY <4>2, <4>3, <3>1, <1>0, <1>1, <2>2, ClassNow
    <3>8. ASSUME st.op # "declare"
          PROVE  /\ st.class \in Class
                 /\ st.class \in OldClasses \/ DeclaredBefore(block', i, j, st.class)
      <4>1. st.class \in declared /\ st.class \in Class
        BY <3>8, <3>1, <1>0 DEF StepsFit, NetworkTypes
      <4> QED BY <4>1, <3>4
    <3>9. ASSUME st.op = "declare"
          PROVE  /\ st.class \in Class \ OldClasses
                 /\ ~DeclaredBefore(block', i, j, st.class)
                 /\ st.class \in Sierra <=> t.version >= 2
      <4>1. /\ st.class \in Class \ declared
            /\ st.class \in Sierra <=> t.version >= 2
        BY <3>9, <3>1, <1>0 DEF StepsFit
      <4>2. ~(\E h \in DOMAIN steps : h < j /\ steps[h].op = "declare")
        BY <3>9, <3>1, <1>0 DEF StepsFit
      <4> QED BY <4>1, <4>2, <3>3 DEF NetworkTypes
    <3>10. block'[i].steps[j] = st
      BY <3>1, <1>0
    <3> HIDE DEF st
    <3> QED BY <3>1, <3>5, <3>6, <3>7, <3>8, <3>9, <3>10, <1>1 DEF StepMeant
  <2> QED BY <2>1, <2>2, <1>2
<1> QED BY <1>7, <1>8, <1>9, <1>10 DEF ClassesNow, DeclaredNow, StepsMeant

\* Sequences of a few steps.
LEMMA Extended ==
    ASSUME NEW S, NEW s \in Seq(S), NEW x \in S, NEW w, w = s \o <<x>>
    PROVE  /\ w \in Seq(S) /\ Len(w) = Len(s) + 1 /\ w[Len(s) + 1] = x
           /\ \A i \in 1 .. Len(s) : w[i] = s[i]
<1>1. <<x>> \in Seq(S) /\ Len(<<x>>) = 1 /\ <<x>>[1] = x
  OBVIOUS
<1>2. w \in Seq(S)
  BY <1>1
<1>3. Len(w) = Len(s) + 1
  BY <1>1
<1>4. w[Len(s) + 1] = x
  BY <1>1
<1>5. \A i \in 1 .. Len(s) : w[i] = s[i]
  BY <1>1
<1> QED BY <1>2, <1>3, <1>4, <1>5

LEMMA TwoSteps ==
    ASSUME NEW S, NEW a \in S, NEW b \in S
    PROVE  <<a>> \o <<b>> = <<a, b>>
<1>1. <<a>> \in Seq(S) /\ Len(<<a>>) = 1
  OBVIOUS
<1>2. PICK w : w = <<a>> \o <<b>>
  OBVIOUS
<1>3. w \in Seq(S) /\ Len(w) = 2 /\ w[1] = a /\ w[2] = b
  BY <1>1, <1>2, Extended
<1>4. w = <<a, b>>
  BY <1>3
<1> QED BY <1>2, <1>4

LEMMA ThreeSteps ==
    ASSUME NEW S, NEW a \in S, NEW b \in S, NEW c \in S
    PROVE  <<a, b>> \o <<c>> = <<a, b, c>>
<1>1. <<a, b>> \in Seq(S) /\ Len(<<a, b>>) = 2
  OBVIOUS
<1>2. PICK w : w = <<a, b>> \o <<c>>
  OBVIOUS
<1>3. w \in Seq(S) /\ Len(w) = 3 /\ w[1] = a /\ w[2] = b /\ w[3] = c
  BY <1>1, <1>2, Extended
<1>4. w = <<a, b, c>>
  BY <1>3
<1> QED BY <1>2, <1>4

LEMMA FourSteps ==
    ASSUME NEW S, NEW a \in S, NEW b \in S, NEW c \in S, NEW d \in S
    PROVE  <<a, b, c>> \o <<d>> = <<a, b, c, d>>
<1>1. <<a, b, c>> \in Seq(S) /\ Len(<<a, b, c>>) = 3
  OBVIOUS
<1>2. PICK w : w = <<a, b, c>> \o <<d>>
  OBVIOUS
<1>3. w \in Seq(S) /\ Len(w) = 4 /\ w[1] = a /\ w[2] = b /\ w[3] = c /\ w[4] = d
  BY <1>1, <1>2, Extended
<1>4. w = <<a, b, c, d>>
  BY <1>3
<1> QED BY <1>2, <1>4

LEMMA NoSteps ==
    ASSUME NEW S, NEW s \in Seq(S)
    PROVE  s \o <<>> = s
  OBVIOUS

\* A call runs the class its contract has.
Runs(st, part, c) ==
    /\ st \in StepOf /\ st.op = "call" /\ st.part = part /\ st.contract = c
    /\ st.class = class[c] /\ class[c] \in declared

LEMMA CallRuns ==
    ASSUME NetworkInv, NEW c \in Deployed, NEW part \in Parts
    PROVE  Runs(Call(part, c), part, c)
<1>1. c \in Contract /\ class[c] \in declared /\ class[c] \in Class
  BY DEF Deployed, NetworkInv, NetworkTypes
<1> QED BY <1>1 DEF Runs, Call, Step, StepOf, Ops

LEMMA FeeRuns ==
    ASSUME NetworkInv
    PROVE  /\ FeeToken \in Deployed
           /\ Fee = <<Call("fee", FeeToken)>> /\ Runs(Call("fee", FeeToken), "fee", FeeToken)
<1>1. FeeToken \in Deployed
  BY ProveBlockAssumption DEF Deployed, NetworkInv, NetworkTypes
<1>2. Runs(Call("fee", FeeToken), "fee", FeeToken)
  BY <1>1, CallRuns DEF Parts
<1> QED BY <1>1, <1>2 DEF Fee

\* What an entry point does besides.
Inner(st) ==
    /\ st \in StepOf /\ st.part = "execute" /\ st.class \in declared
    /\ st.op \in {"call", "library", "deploy", "replace"}
    /\ st.op = "call" => st.class = class[st.contract]
    /\ st.op = "deploy" => class[st.contract] = NoClass
    /\ st.op \in {"deploy", "replace"} => st.contract # FeeToken

LEMMA InnerFits ==
    ASSUME NetworkInv, NEW s \in Deployed \ {FeeToken}, NEW inner \in InnerSteps(s)
    PROVE  inner = <<>> \/ \E st : inner = <<st>> /\ Inner(st)
<1>0. /\ s \in Contract /\ class[s] \in Class /\ declared \subseteq Class
      /\ \A c \in Deployed : c \in Contract /\ class[c] \in declared
      /\ \A c \in Contract \ Deployed : class[c] = NoClass
      /\ FeeToken \in Deployed
  BY ProveBlockAssumption DEF Deployed, NetworkInv, NetworkTypes
<1>1. ASSUME NEW c \in Deployed
      PROVE  Inner(Step("execute", "call", c, class[c], class[s]))
  BY <1>0 DEF Inner, Step, StepOf, Ops, Parts
<1>2. ASSUME NEW k \in declared
      PROVE  Inner(Step("execute", "library", s, k, class[s]))
  BY <1>0 DEF Inner, Step, StepOf, Ops, Parts
<1>3. ASSUME NEW c \in Contract \ Deployed, NEW k \in declared
      PROVE  Inner(Step("execute", "deploy", c, k, class[s]))
  BY <1>0 DEF Inner, Step, StepOf, Ops, Parts
<1>4. ASSUME NEW k \in declared
      PROVE  Inner(Step("execute", "replace", s, k, class[s]))
  BY <1>0 DEF Inner, Step, StepOf, Ops, Parts
<1>5. \/ inner = <<>>
      \/ \E c \in Deployed : inner = <<Step("execute", "call", c, class[c], class[s])>>
      \/ \E k \in declared : inner = <<Step("execute", "library", s, k, class[s])>>
      \/ \E c \in Contract \ Deployed : \E k \in declared :
            inner = <<Step("execute", "deploy", c, k, class[s])>>
      \/ \E k \in declared : inner = <<Step("execute", "replace", s, k, class[s])>>
  BY DEF InnerSteps
<1> QED BY <1>1, <1>2, <1>3, <1>4, <1>5

\* A transaction of calls fits, ...
LEMMA CallsFit ==
    ASSUME NEW t \in Tx,
           \A j \in DOMAIN t.steps :
               \E part \in VisitedParts(t), c \in Contract : Runs(t.steps[j], part, c)
    PROVE  StepsFit(t)
  BY DEF StepsFit, Runs, Gives, Ops, RunOps

\* ... also if one of them does something else, and only the fee token is
\* called after that.
LEMMA InnerStepFits ==
    ASSUME NEW t \in Tx, NEW i \in DOMAIN t.steps, Inner(t.steps[i]),
           "execute" \in VisitedParts(t),
           \A j \in DOMAIN t.steps \ {i} :
               \E part \in VisitedParts(t), c \in Contract :
                   Runs(t.steps[j], part, c) /\ (i < j => c = FeeToken)
    PROVE  StepsFit(t)
<1>1. \A j \in DOMAIN t.steps : j \in Nat
  BY Indexed DEF Tx
<1>2. \A j \in DOMAIN t.steps : j # i => t.steps[j].op = "call"
  BY DEF Runs
<1>3. \A j \in DOMAIN t.steps : \A h \in DOMAIN t.steps :
          /\ t.steps[j].op = "call" /\ Gives(t.steps[h], t.steps[j].contract)
          => h = i /\ j < h
  BY <1>1, <1>2 DEF Inner, Runs, Gives
<1>4. \A j \in DOMAIN t.steps :
          /\ t.steps[j].op \in {"call", "library", "deploy", "replace"}
          /\ t.steps[j].class \in declared
          /\ t.steps[j].part \in VisitedParts(t)
          /\ t.steps[j].op = "call" => t.steps[j].class = class[t.steps[j].contract]
          /\ t.steps[j].op = "deploy" => class[t.steps[j].contract] = NoClass
  BY DEF Inner, Runs
<1> QED BY <1>1, <1>2, <1>3, <1>4 DEF StepsFit, Ops, RunOps

LEMMA InvokeStep ==
    ASSUME NetworkInv, SequenceInvoke
    PROVE  NetworkInv'
<1>1. PICK v \in {0, 1, 3}, s \in Deployed \ {FeeToken} :
        \/ \E inner \in InnerSteps(s) :
              Sequence("INVOKE_FUNCTION", v,
                  <<Call("validate", s), Call("execute", s)>> \o inner \o Fee,
                  FALSE, NoGas)
        \/ Sequence("INVOKE_FUNCTION", v, <<Call("validate", s)>> \o Fee, TRUE, NoGas)
  BY DEF SequenceInvoke
<1>2. PICK a, b, f : a = Call("validate", s) /\ b = Call("execute", s)
                     /\ f = Call("fee", FeeToken)
  OBVIOUS
<1>3. /\ Runs(a, "validate", s) /\ Runs(b, "execute", s) /\ Runs(f, "fee", FeeToken)
      /\ Fee = <<f>> /\ a \in StepOf /\ b \in StepOf /\ f \in StepOf
      /\ s \in Contract /\ FeeToken \in Contract /\ Len(block) + 1 \in Nat
  <2>1. Runs(a, "validate", s) /\ Runs(b, "execute", s)
    BY <1>2, CallRuns DEF Parts
  <2>2. Len(block) + 1 \in Nat
    BY Indexed DEF NetworkInv, NetworkTypes
  <2> QED BY <2>1, <2>2, <1>2, FeeRuns, ProveBlockAssumption DEF Runs, Deployed
<1>4. <<"INVOKE_FUNCTION", v>> \in Kinds /\ v \in 0 .. 3 /\ NoGas \in Gas
  BY DEF Kinds, NoGas, Gas
<1> DEFINE TxOf(steps, reverted) ==
        [type |-> "INVOKE_FUNCTION", version |-> v, id |-> Len(block) + 1,
         steps |-> steps, reverted |-> reverted, gas |-> NoGas]
<1>5. ASSUME NEW steps \in Seq(StepOf), NEW reverted \in BOOLEAN
      PROVE  /\ TxOf(steps, reverted) \in Tx /\ TxOf(steps, reverted).steps = steps
             /\ {"validate", "fee"} \subseteq VisitedParts(TxOf(steps, reverted))
             /\ ~reverted => "execute" \in VisitedParts(TxOf(steps, reverted))
  BY <1>3, <1>4 DEF Tx, Types, VisitedParts
<1>6. ASSUME NEW steps \in Seq(StepOf), NEW reverted \in BOOLEAN,
             Sequence("INVOKE_FUNCTION", v, steps, reverted, NoGas),
             StepsFit(TxOf(steps, reverted))
      PROVE  NetworkInv'
  <2>1. PICK t \in Tx : t = TxOf(steps, reverted)
    BY <1>5
  <2> QED BY <2>1, <1>6, <1>4, SequenceStep
<1> HIDE DEF TxOf
<1>7. CASE Sequence("INVOKE_FUNCTION", v, <<Call("validate", s)>> \o Fee, TRUE, NoGas)
  <2>1. <<Call("validate", s)>> \o Fee = <<a, f>> /\ <<a, f>> \in Seq(StepOf)
    BY <1>2, <1>3, TwoSteps
  <2>2. PICK t : t = TxOf(<<a, f>>, TRUE)
    OBVIOUS
  <2>3. t \in Tx /\ t.steps = <<a, f>> /\ {"validate", "fee"} \subseteq VisitedParts(t)
    BY <2>1, <2>2, <1>5
  <2>4. StepsFit(t)
    <3>1. \A j \in DOMAIN t.steps : t.steps[j] = a \/ t.steps[j] = f
      BY <2>3
    <3> QED BY <3>1, <2>3, <1>3, CallsFit
  <2> QED BY <2>1, <2>2, <2>4, <1>6, <1>7
<1>8. ASSUME NEW inner \in InnerSteps(s),
             Sequence("INVOKE_FUNCTION", v,
                  <<Call("validate", s), Call("execute", s)>> \o inner \o Fee,
                  FALSE, NoGas)
      PROVE  NetworkInv'
  <2>0. <<Call("validate", s), Call("execute", s)>> = <<a, b>> /\ <<a, b>> \in Seq(StepOf)
    BY <1>2, <1>3
  <2>1. CASE inner = <<>>
    <3>1. /\ <<Call("validate", s), Call("execute", s)>> \o inner \o Fee = <<a, b, f>>
          /\ <<a, b, f>> \in Seq(StepOf)
      <4>1. <<a, b>> \o <<>> = <<a, b>>
        BY <2>0, NoSteps
      <4>2. <<a, b>> \o <<f>> = <<a, b, f>>
        BY <1>3, ThreeSteps
      <4> QED BY <4>1, <4>2, <2>0, <2>1, <1>3
    <3>2. PICK t : t = TxOf(<<a, b, f>>, FALSE)
      OBVIOUS
    <3>3. t \in Tx /\ t.steps = <<a, b, f>> /\ {"validate", "fee", "execute"} \subseteq VisitedParts(t)
      BY <3>1, <3>2, <1>5
    <3>4. \A j \in DOMAIN t.steps : t.steps[j] = a \/ t.steps[j] = b \/ t.steps[j] = f
      BY <3>3
    <3>5. StepsFit(t)
      BY <3>4, <3>3, <1>3, CallsFit
    <3> QED BY <3>1, <3>2, <3>5, <1>6, <1>8
  <2>2. ASSUME NEW x, inner = <<x>>, Inner(x)
        PROVE  NetworkInv'
    <3>0. x \in StepOf
      BY <2>2 DEF Inner
    <3>1. /\ <<Call("validate", s), Call("execute", s)>> \o inner \o Fee = <<a, b, x, f>>
          /\ <<a, b, x, f>> \in Seq(StepOf)
      <4>1. <<a, b>> \o <<x>> = <<a, b, x>>
        BY <1>3, <3>0, ThreeSteps
      <4>2. <<a, b, x>> \o <<f>> = <<a, b, x, f>>
        BY <1>3, <3>0, FourSteps
      <4>3. <<Call("validate", s), Call("execute", s)>> \o inner \o Fee
                = <<a, b>> \o <<x>> \o <<f>>
        BY <2>0, <2>2, <1>3
      <4>4. <<a, b, x, f>> \in Seq(StepOf)
        BY <1>3, <3>0
      <4> QED BY <4>1, <4>2, <4>3, <4>4
    <3>2. PICK t : t = TxOf(<<a, b, x, f>>, FALSE)
      OBVIOUS
    <3>3. t \in Tx /\ t.steps = <<a, b, x, f>> /\ {"validate", "fee", "execute"} \subseteq VisitedParts(t)
      BY <3>1, <3>2, <1>5
    <3>4. /\ DOMAIN t.steps = 1 .. 4 /\ t.steps[1] = a /\ t.steps[2] = b
          /\ t.steps[3] = x /\ t.steps[4] = f
      BY <3>3
    <3>5. \A j \in DOMAIN t.steps \ {3} : \E part \in VisitedParts(t), c \in Contract :
              Runs(t.steps[j], part, c) /\ (3 < j => c = FeeToken)
      BY <3>3, <3>4, <1>3
    <3>6. StepsFit(t)
      BY <3>3, <3>4, <3>5, <2>2, InnerStepFits
    <3> QED BY <3>1, <3>2, <3>6, <1>6, <1>8
  <2> QED BY <2>1, <2>2, InnerFits
<1> QED BY <1>1, <1>7, <1>8

LEMMA L1HandlerStep ==
    ASSUME NetworkInv, SequenceL1Handler
    PROVE  NetworkInv'
<1> DEFINE gases ==
        {NoGas, [NoGas EXCEPT !.l1_gas = 1], [NoGas EXCEPT !.l1_data_gas = 1]}
<1>9. gases \subseteq Gas
  BY DEF NoGas, Gas
<1>0. PICK s \in Deployed \ {FeeToken}, gas \in Gas :
        \E inner \in InnerSteps(s) :
            Sequence("L1_HANDLER", 0, <<Call("execute", s)>> \o inner, FALSE, gas)
  <2>1. \E s \in Deployed \ {FeeToken}, gas \in gases : \E inner \in InnerSteps(s) :
            Sequence("L1_HANDLER", 0, <<Call("execute", s)>> \o inner, FALSE, gas)
    BY DEF SequenceL1Handler
  <2> HIDE DEF gases
  <2> QED BY <2>1, <1>9
<1> HIDE DEF gases
<1>1. PICK inner \in InnerSteps(s) :
        Sequence("L1_HANDLER", 0, <<Call("execute", s)>> \o inner, FALSE, gas)
  BY <1>0
<1>2. PICK b : b = Call("execute", s)
  OBVIOUS
<1>3. Runs(b, "execute", s) /\ b \in StepOf /\ s \in Contract /\ Len(block) + 1 \in Nat
  <2>1. Runs(b, "execute", s)
    BY <1>2, CallRuns DEF Parts
  <2>2. Len(block) + 1 \in Nat
    BY Indexed DEF NetworkInv, NetworkTypes
  <2> QED BY <2>1, <2>2 DEF Runs, Deployed
<1>4. <<"L1_HANDLER", 0>> \in Kinds
  BY DEF Kinds
<1> DEFINE TxOf(steps) ==
        [type |-> "L1_HANDLER", version |-> 0, id |-> Len(block) + 1,
         steps |-> steps, reverted |-> FALSE, gas |-> gas]
<1>5. ASSUME NEW steps \in Seq(StepOf)
      PROVE  /\ TxOf(steps) \in Tx /\ TxOf(steps).steps = steps
             /\ "execute" \in VisitedParts(TxOf(steps))
  BY <1>3, <1>4 DEF Tx, Types, VisitedParts
<1>6. ASSUME NEW steps \in Seq(StepOf),
             Sequence("L1_HANDLER", 0, steps, FALSE, gas), StepsFit(TxOf(steps))
      PROVE  NetworkInv'
  <2>1. PICK t \in Tx : t = TxOf(steps)
    BY <1>5
  <2> QED BY <2>1, <1>6, <1>4, SequenceStep
<1> HIDE DEF TxOf
<1>7. CASE inner = <<>>
  <2>1. <<Call("execute", s)>> \o inner = <<b>> /\ <<b>> \in Seq(StepOf)
    BY <1>2, <1>3, <1>7
  <2>2. PICK t : t = TxOf(<<b>>)
    OBVIOUS
  <2>3. t \in Tx /\ t.steps = <<b>> /\ "execute" \in VisitedParts(t)
    BY <2>1, <2>2, <1>5
  <2>4. \A j \in DOMAIN t.steps : t.steps[j] = b
    BY <2>3
  <2>5. StepsFit(t)
    BY <2>3, <2>4, <1>3, CallsFit
  <2> QED BY <2>1, <2>2, <2>5, <1>1, <1>6
<1>8. ASSUME NEW x, inner = <<x>>, Inner(x)
      PROVE  NetworkInv'
  <2>1. x \in StepOf
    BY <1>8 DEF Inner
  <2>2. <<Call("execute", s)>> \o inner = <<b, x>> /\ <<b, x>> \in Seq(StepOf)
    BY <1>2, <1>3, <1>8, <2>1, TwoSteps
  <2>3. PICK t : t = TxOf(<<b, x>>)
    OBVIOUS
  <2>4. t \in Tx /\ t.steps = <<b, x>> /\ "execute" \in VisitedParts(t)
    BY <2>2, <2>3, <1>5
  <2>5. DOMAIN t.steps = 1 .. 2 /\ t.steps[1] = b /\ t.steps[2] = x
    BY <2>4
  <2>6. \A j \in DOMAIN t.steps \ {2} : \E part \in VisitedParts(t), c \in Contract :
            Runs(t.steps[j], part, c) /\ (2 < j => c = FeeToken)
    BY <2>4, <2>5, <1>3
  <2>7. StepsFit(t)
    BY <2>4, <2>5, <2>6, <1>8, InnerStepFits
  <2> QED BY <2>2, <2>3, <2>7, <1>1, <1>6
<1> QED BY <1>7, <1>8, InnerFits

LEMMA DeclareStep ==
    ASSUME NetworkInv, SequenceDeclare
    PROVE  NetworkInv'
<1>1. PICK v \in 0 .. 3, s \in Deployed \ {FeeToken}, k \in Class \ declared :
        /\ k \in Sierra <=> v >= 2
        /\ Sequence("DECLARE", v,
               <<Call("validate", s)>> \o Fee
                   \o <<Step("declare", "declare", s, k, class[s])>>,
               FALSE, NoGas)
  BY DEF SequenceDeclare
<1>2. PICK a, f, d : /\ a = Call("validate", s) /\ f = Call("fee", FeeToken)
                     /\ d = Step("declare", "declare", s, k, class[s])
  OBVIOUS
<1>3. /\ Runs(a, "validate", s) /\ Runs(f, "fee", FeeToken) /\ Fee = <<f>>
      /\ a \in StepOf /\ f \in StepOf /\ Len(block) + 1 \in Nat
      /\ s \in Contract /\ FeeToken \in Contract
  <2>1. Runs(a, "validate", s)
    BY <1>2, CallRuns DEF Parts
  <2>2. Len(block) + 1 \in Nat
    BY Indexed DEF NetworkInv, NetworkTypes
  <2> QED BY <2>1, <2>2, <1>2, FeeRuns, ProveBlockAssumption DEF Runs, Deployed
<1>4. d \in StepOf /\ d.op = "declare" /\ d.class = k
  BY <1>2, <1>3 DEF Step, StepOf, Ops, Parts, NetworkInv, NetworkTypes
<1>5. <<"DECLARE", v>> \in Kinds /\ NoGas \in Gas
  BY DEF Kinds, NoGas, Gas
<1>6. /\ <<Call("validate", s)>> \o Fee
            \o <<Step("declare", "declare", s, k, class[s])>> = <<a, f, d>>
      /\ <<a, f, d>> \in Seq(StepOf)
  <2>1. <<a>> \o <<f>> = <<a, f>>
    BY <1>3, TwoSteps
  <2>2. <<a, f>> \o <<d>> = <<a, f, d>>
    BY <1>3, <1>4, ThreeSteps
  <2>3. <<Call("validate", s)>> \o Fee
            \o <<Step("declare", "declare", s, k, class[s])>>
          = <<a>> \o <<f>> \o <<d>>
    BY <1>2, <1>3
  <2>4. <<a, f, d>> \in Seq(StepOf)
    BY <1>3, <1>4
  <2> QED BY <2>1, <2>2, <2>3, <2>4
<1>7. PICK t : t = [type |-> "DECLARE", version |-> v, id |-> Len(block) + 1,
                    steps |-> <<a, f, d>>, reverted |-> FALSE, gas |-> NoGas]
  OBVIOUS
<1>8. /\ t \in Tx /\ t.steps = <<a, f, d>> /\ t.version = v
      /\ {"validate", "fee"} \subseteq VisitedParts(t)
  BY <1>3, <1>5, <1>6, <1>7 DEF Tx, Types, VisitedParts
<1>9. DOMAIN t.steps = 1 .. 3 /\ t.steps[1] = a /\ t.steps[2] = f /\ t.steps[3] = d
  BY <1>8
<1>10. StepsFit(t)
  <2>1. \A j \in DOMAIN t.steps : \A c : ~Gives(t.steps[j], c)
    BY <1>3, <1>4, <1>9 DEF Gives, Runs
  <2>2. \A i \in DOMAIN t.steps : \A j \in DOMAIN t.steps :
            /\ ~(t.steps[i].op \in {"deploy", "replace"})
            /\ t.steps[i].op = "declare" /\ t.steps[j].op = "declare" => i = j
    BY <1>3, <1>4, <1>9 DEF Runs
  <2>3. \A j \in DOMAIN t.steps :
            \/ /\ t.steps[j].op = "call" /\ t.steps[j].class = class[t.steps[j].contract]
               /\ t.steps[j].class \in declared /\ t.steps[j].part \in VisitedParts(t)
            \/ t.steps[j].op = "declare" /\ t.steps[j].class = k
    BY <1>3, <1>4, <1>8, <1>9 DEF Runs
  <2> QED BY <2>1, <2>2, <2>3, <1>1, <1>8 DEF StepsFit, Ops, RunOps
<1>11. Sequence("DECLARE", v, <<a, f, d>>, FALSE, NoGas)
  BY <1>1, <1>6
<1> QED BY <1>5, <1>7, <1>8, <1>10, <1>11, SequenceStep

LEMMA DeployAccountStep ==
    ASSUME NetworkInv, SequenceDeployAccount
    PROVE  NetworkInv'
<1>1. PICK v \in {1, 3}, c \in Contract \ Deployed, k \in declared :
        Sequence("DEPLOY_ACCOUNT", v,
            <<Step("constructor", "deploy", c, k, NoClass),
              Step("validate", "call", c, k, k)>> \o Fee,
            FALSE, NoGas)
  BY DEF SequenceDeployAccount
<1>2. PICK d, a, f : /\ d = Step("constructor", "deploy", c, k, NoClass)
                     /\ a = Step("validate", "call", c, k, k)
                     /\ f = Call("fee", FeeToken)
  OBVIOUS
<1>3. /\ Runs(f, "fee", FeeToken) /\ Fee = <<f>> /\ f \in StepOf
      /\ Len(block) + 1 \in Nat /\ k \in Class
      /\ c # FeeToken /\ class[c] = NoClass
  <2>1. Len(block) + 1 \in Nat
    BY Indexed DEF NetworkInv, NetworkTypes
  <2>2. Runs(f, "fee", FeeToken) /\ Fee = <<f>> /\ f \in StepOf /\ c # FeeToken
    BY <1>2, FeeRuns DEF Runs
  <2> QED BY <2>1, <2>2 DEF Deployed, NetworkInv, NetworkTypes
<1>4. /\ d \in StepOf /\ d.op = "deploy" /\ d.class = k /\ d.contract = c
      /\ d.part = "constructor"
      /\ a \in StepOf /\ a.op = "call" /\ a.class = k /\ a.contract = c
      /\ a.part = "validate"
  BY <1>2, <1>3 DEF Step, StepOf, Ops, Parts
<1>5. <<"DEPLOY_ACCOUNT", v>> \in Kinds /\ NoGas \in Gas /\ v \in 0 .. 3
  BY DEF Kinds, NoGas, Gas
<1>6. /\ <<Step("constructor", "deploy", c, k, NoClass),
            Step("validate", "call", c, k, k)>> \o Fee = <<d, a, f>>
      /\ <<d, a, f>> \in Seq(StepOf)
  <2>1. <<d, a>> \o <<f>> = <<d, a, f>>
    BY <1>3, <1>4, ThreeSteps
  <2>2. <<Step("constructor", "deploy", c, k, NoClass),
          Step("validate", "call", c, k, k)>> \o Fee = <<d, a>> \o <<f>>
    BY <1>2, <1>3
  <2>3. <<d, a, f>> \in Seq(StepOf)
    BY <1>3, <1>4
  <2> QED BY <2>1, <2>2, <2>3
<1>7. PICK t : t = [type |-> "DEPLOY_ACCOUNT", version |-> v, id |-> Len(block) + 1,
                    steps |-> <<d, a, f>>, reverted |-> FALSE, gas |-> NoGas]
  OBVIOUS
<1>8. /\ t \in Tx /\ t.steps = <<d, a, f>>
      /\ {"validate", "fee", "constructor"} \subseteq VisitedParts(t)
  BY <1>3, <1>5, <1>6, <1>7 DEF Tx, Types, VisitedParts
<1>9. DOMAIN t.steps = 1 .. 3 /\ t.steps[1] = d /\ t.steps[2] = a /\ t.steps[3] = f
  BY <1>8
<1>10. StepsFit(t)
  <2>1. \A j \in DOMAIN t.steps : \A h \in DOMAIN t.steps :
            Gives(t.steps[h], t.steps[j].contract) => h = 1 /\ j # 3
    BY <1>3, <1>4, <1>9 DEF Gives, Runs
  <2>2. Gives(t.steps[1], c) /\ 1 \in DOMAIN t.steps
    BY <1>4, <1>9 DEF Gives
  <2>3. \A i \in DOMAIN t.steps :
            /\ t.steps[i].op \in {"deploy", "replace"} => i = 1
            /\ t.steps[i].op # "declare" /\ t.steps[i].op \in {"deploy", "call"}
            /\ t.steps[i].class \in declared
            /\ t.steps[i].part \in VisitedParts(t)
            /\ t.steps[i].op = "deploy" => class[t.steps[i].contract] = NoClass
    BY <1>3, <1>4, <1>8, <1>9 DEF Runs
  <2>4. \A j \in DOMAIN t.steps : t.steps[j].op = "call" =>
            \/ /\ t.steps[j].class = class[t.steps[j].contract]
               /\ \A i \in DOMAIN t.steps :
                     Gives(t.steps[i], t.steps[j].contract) => j <= i
            \/ \E i \in DOMAIN t.steps :
                  /\ i < j /\ Gives(t.steps[i], t.steps[j].contract)
                  /\ t.steps[j].class = t.steps[i].class
    <3> SUFFICES ASSUME NEW j \in DOMAIN t.steps, t.steps[j].op = "call"
                 PROVE  \/ /\ t.steps[j].class = class[t.steps[j].contract]
                           /\ \A i \in DOMAIN t.steps :
                                 Gives(t.steps[i], t.steps[j].contract) => j <= i
                        \/ \E i \in DOMAIN t.steps :
                              /\ i < j /\ Gives(t.steps[i], t.steps[j].contract)
                              /\ t.steps[j].class = t.steps[i].class
      OBVIOUS
    <3>1. j = 2 \/ j = 3
      BY <1>4, <1>9
    <3>2. CASE j = 2
      BY <3>2, <2>2, <1>4, <1>9
    <3>3. CASE j = 3
      BY <3>3, <2>1, <1>3, <1>9 DEF Runs
    <3> QED BY <3>1, <3>2, <3>3
  <2> QED BY <2>3, <2>4 DEF StepsFit, Ops, RunOps
<1>11. Sequence("DEPLOY_ACCOUNT", v, <<d, a, f>>, FALSE, NoGas)
  BY <1>1, <1>6
<1> QED BY <1>5, <1>7, <1>8, <1>10, <1>11, SequenceStep

LEMMA DeployStep ==
    ASSUME NetworkInv, SequenceDeploy
    PROVE  NetworkInv'
<1>1. Len(block) + 1 \in Nat
  BY Indexed DEF NetworkInv, NetworkTypes
<1>2. PICK t : t = [type |-> "DEPLOY", version |-> 0, id |-> Len(block) + 1,
                    steps |-> <<>>, reverted |-> FALSE, gas |-> NoGas]
  OBVIOUS
<1>3. t \in Tx /\ t.steps = <<>> /\ <<"DEPLOY", 0>> \in Kinds
  BY <1>1, <1>2 DEF Tx, Types, NoGas, Gas, Kinds
<1>4. StepsFit(t)
  BY <1>3 DEF StepsFit
<1> QED BY <1>2, <1>3, <1>4, SequenceStep DEF SequenceDeploy

-----------------------------------------------------------------------------
(* The inputs.                                                             *)

Collecting == {"classes", "replay", "contracts", "initialize", "os", "done"}
Formatted == Collecting \ {"classes"}
Replayed == Formatted \ {"replay"}
Ready == {"initialize", "os", "done"}
Started == {"os", "done"}

\* Nothing is there before its time.
Fresh ==
    /\ phase \in {"sequence", "convert", "stopped"} \cup Collecting
    /\ phase # "stopped" => outcome = "ok"
    /\ phase \in {"sequence", "convert"} =>
          /\ class_hash_to_compiled_class_hash = EmptyMap
          /\ compiled_classes = EmptyMap
          /\ deprecated_compiled_classes = {}
          /\ declared_class_hash_component_hashes = {}
    /\ phase \in {"sequence", "convert", "classes"} => txs = <<>>
    /\ phase \notin Started \cup {"stopped"} =>
          next = 0 /\ step = 0 /\ tx_execution_info = [steps |-> <<>>]

Converted ==
    phase \in Collecting =>
        /\ \A i \in DOMAIN block : IsConverted(block[i])
        /\ transactions = [i \in DOMAIN block |-> starknet_rs_tx_to_internal_tx(block[i])]

\* The OS can find the compiled class of k.
KnownClass(k) ==
    \/ /\ k \in Sierra /\ k \in DOMAIN class_hash_to_compiled_class_hash
       /\ Casm(k) \in DOMAIN compiled_classes /\ compiled_classes[Casm(k)] = k
    \/ k \in Legacy /\ k \in deprecated_compiled_classes

\* The dictionary of compiled class hashes has Cairo 1 classes only: each with
\* its hash, until those of the block are set to 0.
MapsInStep ==
    /\ DOMAIN class_hash_to_compiled_class_hash \subseteq Sierra
    /\ deprecated_compiled_classes \subseteq Legacy
    /\ phase = "classes" =>
          \A k \in DOMAIN class_hash_to_compiled_class_hash :
              KnownClass(k) /\ class_hash_to_compiled_class_hash[k] = Casm(k)
    /\ phase \in Formatted =>
          /\ state_diff_declared_classes \subseteq DOMAIN class_hash_to_compiled_class_hash
          /\ \A k \in DOMAIN class_hash_to_compiled_class_hash :
                class_hash_to_compiled_class_hash[k] =
                    IF k \in state_diff_declared_classes THEN Zero ELSE Casm(k)

\* What a step runs, and what its contract ends with, is collected or will be.
StepsCollected ==
    /\ phase \in Formatted =>
          accessed_addresses = {} /\ accessed_classes = {} /\ declared_classes = {}
    /\ phase \in Collecting =>
          /\ state_diff_declared_classes \subseteq
                declared_classes \cup declared_class_hash_component_hashes
          /\ \A i \in DOMAIN block : \A j \in DOMAIN block[i].steps :
                block[i].steps[j].op \in RunOps =>
                    /\ \/ block[i].steps[j].class \in accessed_classes
                       \/ KnownClass(block[i].steps[j].class)
                    /\ \/ block[i].steps[j].contract \in accessed_addresses
                       \/ class[block[i].steps[j].contract] = NoClass
                       \/ KnownClass(class[block[i].steps[j].contract])

\* The transactions of blockifier and what it records are those of the block.
BlockTxs == [i \in DOMAIN block |-> starknet_rs_to_blockifier(block[i], block[i].gas)]
ReplayInStep ==
    /\ phase = "replay" => txs = <<>> \/ txs = BlockTxs
    /\ (phase = "replay" /\ txs # <<>>) \/ phase \in Replayed =>
          \A i \in DOMAIN block : IsReplayable(block[i])
    /\ phase \in Replayed =>
          tx_execution_infos =
              [i \in DOMAIN block |-> [tx_hash |-> block[i].id,
                                       is_reverted |-> block[i].reverted,
                                       steps |-> block[i].steps]]

\* The contracts of the block.
Touched ==
    {c \in Contract : \E i \in DOMAIN block : \E j \in DOMAIN block[i].steps :
                          block[i].steps[j].contract = c}

ContractsRead ==
    phase \in Ready =>
        /\ contracts = [c \in Touched \cup {BlockHashContract} |->
                            IF c = BlockHashContract THEN NoClass ELSE prevClass[c]]
        /\ contract_address_to_class_hash = [c \in Touched |-> class[c]]

-----------------------------------------------------------------------------
(* The OS.                                                                 *)

\* The place of the block the OS has come to.
TxPlace == IF step = 0 THEN next + 1 ELSE next
StepPlace == IF step = 0 THEN 1 ELSE step

TxInScope ==
    phase \in Started =>
        /\ next \in 0 .. Len(block) /\ step \in Nat
        /\ tx_execution_info.steps \in Seq(StepOf)
        /\ step > 0 =>
              /\ next \in DOMAIN block /\ step <= Len(block[next].steps) + 1
              /\ tx = transactions[next]
              /\ tx_execution_info = tx_execution_infos[next]
        /\ phase = "done" => step = 0 /\ next = Len(block)

\* The dictionaries of the OS are those of its place: the class every touched
\* contract has there, and 0 for the classes of the block not yet declared.
ClassesInStep ==
    phase \in Started =>
        /\ DOMAIN osClass = Touched \cup {BlockHashContract}
        /\ \A c \in Touched :
              ClassBefore(block, prevClass, TxPlace, StepPlace, c, osClass[c])
CompiledInStep ==
    phase \in Started =>
        /\ DOMAIN osCompiled = DOMAIN class_hash_to_compiled_class_hash
        /\ \A k \in DOMAIN osCompiled :
              osCompiled[k] =
                  IF /\ k \in state_diff_declared_classes
                     /\ ~DeclaredBefore(block, TxPlace, StepPlace, k)
                  THEN Zero ELSE Casm(k)

InputsInv ==
    /\ Fresh /\ Converted /\ MapsInStep /\ StepsCollected
    /\ ReplayInStep /\ ContractsRead
OsInv == TxInScope /\ ClassesInStep /\ CompiledInStep

\* What the run has not stopped for.
Accepted == outcome # "transaction" /\ outcome # "failed in blockifier"
Failures == ClassesAreFound /\ DeclarationsFindZero /\ DeploysAreAnswered /\ Accepted

IInv == NetworkInv /\ InputsInv /\ OsInv /\ Failures

LEMMA InitInv ==
    ASSUME Init
    PROVE  IInv
<1>1. /\ prevClass \in [Contract -> OldClasses \cup {NoClass}]
      /\ \A c \in Contract : prevClass[c] = NoClass <=> c \in NewContracts
      /\ class = prevClass /\ declared = OldClasses /\ block = <<>>
  BY DEF Init
<1>2. NetworkTypes
  <2>1. class[FeeToken] # NoClass
    BY <1>1, ProveBlockAssumption
  <2>2. block \in Seq(Tx) /\ DOMAIN block = {}
    BY <1>1
  <2> QED BY <1>1, <2>1, <2>2, ProveBlockAssumption DEF NetworkTypes
<1>3. DOMAIN block = {}
  BY <1>1
<1>4. ClassesNow /\ DeclaredNow /\ StepsMeant
  BY <1>1, <1>3 DEF ClassesNow, DeclaredNow, StepsMeant, ClassBefore, DeclaredBefore
<1>5. phase = "sequence" /\ outcome = "ok"
  BY DEF Init
<1>6. InputsInv
  <2>1. Fresh
    BY DEF Init, Fresh, Started, Collecting
  <2>2. DOMAIN EmptyMap = {}
    BY DEF EmptyMap
  <2>3. MapsInStep
    BY <1>5, <2>2 DEF Init, MapsInStep, Formatted, Collecting
  <2> QED BY <1>5, <2>1, <2>3
        DEF InputsInv, Converted, StepsCollected, ReplayInStep, ContractsRead,
            Collecting, Formatted, Replayed, Ready
<1>7. OsInv /\ Failures
  BY <1>5 DEF OsInv, TxInScope, ClassesInStep, CompiledInStep, Started, Failures,
              ClassesAreFound, DeclarationsFindZero, DeploysAreAnswered, Accepted
<1> QED BY <1>2, <1>4, <1>6, <1>7 DEF IInv, NetworkInv, Failures

LEMMA SequenceKeeps ==
    ASSUME IInv, NEW type, NEW version, NEW steps, NEW reverted, NEW gas,
           Sequence(type, version, steps, reverted, gas)
    PROVE  InputsInv' /\ OsInv' /\ Failures'
<1>1. /\ phase = "sequence" /\ phase' = phase /\ outcome' = outcome
      /\ UNCHANGED inputs /\ UNCHANGED os
  BY DEF Sequence
<1>2. outcome = "ok"
  BY <1>1 DEF IInv, InputsInv, Fresh
<1>3. Fresh' /\ MapsInStep'
  BY <1>1 DEF IInv, InputsInv, Fresh, MapsInStep, Formatted, Collecting, inputs,
              compiled, replay, os, Started
<1> QED BY <1>1, <1>2, <1>3
      DEF InputsInv, Converted, StepsCollected, ReplayInStep, ContractsRead,
          Collecting, Formatted, Replayed, Ready, Started,
          OsInv, TxInScope, ClassesInStep, CompiledInStep, Failures,
          ClassesAreFound, DeclarationsFindZero, DeploysAreAnswered, Accepted

LEMMA SequencesStep ==
    ASSUME IInv, \/ SequenceInvoke \/ SequenceL1Handler \/ SequenceDeclare
                 \/ SequenceDeployAccount \/ SequenceDeploy
    PROVE  IInv'
<1>1. NetworkInv'
  BY InvokeStep, L1HandlerStep, DeclareStep, DeployAccountStep, DeployStep DEF IInv
<1> DEFINE Sequenced == \E type, version, steps, reverted, gas :
                            Sequence(type, version, steps, reverted, gas)
<1>2. Sequenced
  <2>1. SequenceInvoke => Sequenced
    BY Zenon DEF SequenceInvoke
  <2>2. SequenceL1Handler => Sequenced
    BY Zenon DEF SequenceL1Handler
  <2>3. SequenceDeclare => Sequenced
    BY Zenon DEF SequenceDeclare
  <2>4. SequenceDeployAccount => Sequenced
    BY Zenon DEF SequenceDeployAccount
  <2>5. SequenceDeploy => Sequenced
    BY Zenon DEF SequenceDeploy
  <2> QED BY <2>1, <2>2, <2>3, <2>4, <2>5
<1> QED BY <1>1, <1>2, SequenceKeeps DEF IInv, Failures

\* After the block is sealed the network does nothing.
LEMMA NetworkKept ==
    ASSUME NetworkInv, UNCHANGED network
    PROVE  /\ NetworkInv' /\ prevClass' = prevClass /\ class' = class
           /\ declared' = declared /\ block' = block
           /\ state_diff_declared_classes' = state_diff_declared_classes
           /\ Touched' = Touched
  BY DEF network, NetworkInv, NetworkTypes, ClassesNow, DeclaredNow, StepsMeant,
         state_diff_declared_classes, Touched

LEMMA SealStep ==
    ASSUME IInv, Seal
    PROVE  IInv'
<1>1. /\ phase = "sequence" /\ phase' = "convert" /\ outcome' = outcome
      /\ UNCHANGED network /\ UNCHANGED inputs /\ UNCHANGED os
  BY DEF Seal
<1>2. NetworkInv'
  BY <1>1, NetworkKept DEF IInv
<1>3. outcome = "ok"
  BY <1>1 DEF IInv, InputsInv, Fresh
<1>4. Fresh' /\ MapsInStep'
  BY <1>1 DEF IInv, InputsInv, Fresh, MapsInStep, Formatted, Collecting, inputs,
              compiled, replay, os, Started
<1> QED BY <1>1, <1>2, <1>3, <1>4
      DEF IInv, InputsInv, Converted, StepsCollected, ReplayInStep, ContractsRead,
          Collecting, Formatted, Replayed, Ready, Started,
          OsInv, TxInScope, ClassesInStep, CompiledInStep, Failures,
          ClassesAreFound, DeclarationsFindZero, DeploysAreAnswered, Accepted

\* A run that stops keeps what is promised of it.
LEMMA StoppedKeeps ==
    ASSUME IInv, UNCHANGED network, phase' = "stopped",
           outcome' \notin {"class", "declare", "deploy", "transaction",
                         "failed in blockifier"},
           UNCHANGED <<class_hash_to_compiled_class_hash, deprecated_compiled_classes>>
    PROVE  IInv'
<1>1. NetworkInv'
  BY NetworkKept DEF IInv
<1>2. Fresh' /\ MapsInStep'
  BY DEF IInv, InputsInv, Fresh, MapsInStep, Formatted, Collecting, Started
<1> QED BY <1>1, <1>2
      DEF IInv, InputsInv, Converted, StepsCollected, ReplayInStep, ContractsRead,
          Collecting, Formatted, Replayed, Ready, Started,
          OsInv, TxInScope, ClassesInStep, CompiledInStep, Failures,
          ClassesAreFound, DeclarationsFindZero, DeploysAreAnswered, Accepted

\* Every step that runs a class is visited.
LEMMA StepVisited ==
    ASSUME NetworkInv, NEW i \in DOMAIN block, NEW j \in DOMAIN block[i].steps,
           block[i].steps[j].op \in RunOps
    PROVE  \E a \in get_subcalled_contracts_from_tx_traces(block) :
               /\ a.contract = block[i].steps[j].contract
               /\ a.class = block[i].steps[j].class
<1>1. block[i].steps[j].part \in VisitedParts(block[i])
  BY DEF NetworkInv, StepsMeant, StepMeant
<1>2. PICK part : part = block[i].steps[j].part
  OBVIOUS
<1>3. PICK a : a = [contract |-> block[i].steps[j].contract,
                    class |-> block[i].steps[j].class]
  OBVIOUS
<1>4. a \in process_function_invocations(block[i], part)
  BY <1>2, <1>3 DEF process_function_invocations, RunOps
<1>5. a \in get_subcalled_contracts_from_tx_traces(block)
  BY <1>1, <1>2, <1>4 DEF get_subcalled_contracts_from_tx_traces
<1> QED BY <1>3, <1>5

LEMMA ConvertStep ==
    ASSUME IInv, ConvertTransactions
    PROVE  IInv'
<1>1. /\ phase = "convert" /\ UNCHANGED network /\ UNCHANGED compiled
      /\ UNCHANGED declared_class_hash_component_hashes
      /\ UNCHANGED replay /\ UNCHANGED os
  BY DEF ConvertTransactions
<1>2. CASE phase' = "stopped"
  <2>1. outcome' = "unimplemented"
    BY <1>2 DEF ConvertTransactions, Stop
  <2> QED BY <1>1, <1>2, <2>1, StoppedKeeps DEF compiled
<1>3. CASE phase' # "stopped"
  <2>1. /\ \A i \in DOMAIN block : IsConverted(block[i])
        /\ transactions' =
             [i \in DOMAIN block |-> starknet_rs_tx_to_internal_tx(block[i])]
        /\ accessed_addresses' =
             {a.contract : a \in get_subcalled_contracts_from_tx_traces(block)}
        /\ accessed_classes' =
             {a.class : a \in get_subcalled_contracts_from_tx_traces(block)}
        /\ declared_classes' = state_diff_declared_classes
        /\ phase' = "classes" /\ outcome' = outcome
    BY <1>3 DEF ConvertTransactions, Stop
  <2>2. /\ NetworkInv' /\ class' = class /\ declared' = declared /\ block' = block
        /\ state_diff_declared_classes' = state_diff_declared_classes
    BY <1>1, NetworkKept DEF IInv
  <2>3. outcome = "ok" /\ outcome' = "ok"
    BY <1>1, <2>1 DEF IInv, InputsInv, Fresh
  <2>4. Fresh'
    BY <1>1, <2>1, <2>3 DEF IInv, InputsInv, Fresh, Collecting, Started, compiled, replay, os
  <2>5. Converted'
    BY <2>1, <2>2 DEF Converted
  <2>6. MapsInStep'
    <3>1. DOMAIN class_hash_to_compiled_class_hash' = {}
      BY <1>1 DEF IInv, InputsInv, Fresh, compiled, EmptyMap
    <3> QED BY <1>1, <2>1, <3>1 DEF IInv, InputsInv, Fresh, compiled, MapsInStep, Formatted
  <2>7. StepsCollected'
    <3>1. \A i \in DOMAIN block : \A j \in DOMAIN block[i].steps :
              block[i].steps[j].op \in RunOps =>
                  /\ block[i].steps[j].class \in accessed_classes'
                  /\ block[i].steps[j].contract \in accessed_addresses'
      BY <2>1, StepVisited DEF IInv
    <3> QED BY <3>1, <2>1, <2>2 DEF StepsCollected, Formatted
  <2>8. ReplayInStep' /\ ContractsRead' /\ OsInv'
    BY <2>1 DEF ReplayInStep, ContractsRead, Formatted, Replayed, Ready, Started,
                OsInv, TxInScope, ClassesInStep, CompiledInStep, Collecting
  <2>9. Failures'
    BY <2>3 DEF Failures, ClassesAreFound, DeclarationsFindZero, DeploysAreAnswered, Accepted
  <2> QED BY <2>2, <2>4, <2>5, <2>6, <2>7, <2>8, <2>9 DEF IInv, InputsInv
<1> QED BY <1>2, <1>3

\* A class that is added is known afterwards, and so is every known one.
LEMMA AddedKnown ==
    ASSUME MapsInStep, phase = "classes", NEW ks, add_compiled_class_to_os_input(ks)
    PROVE  /\ \A k : KnownClass(k) => KnownClass(k)'
           /\ \A k \in ks : k \in Class => KnownClass(k)'
           /\ DOMAIN class_hash_to_compiled_class_hash' \subseteq Sierra
           /\ deprecated_compiled_classes' \subseteq Legacy
           /\ \A k \in DOMAIN class_hash_to_compiled_class_hash' :
                 KnownClass(k)' /\ class_hash_to_compiled_class_hash'[k] = Casm(k)
<1>1. PICK new : new = {k \in ks : k \notin DOMAIN class_hash_to_compiled_class_hash}
  OBVIOUS
<1>2. /\ class_hash_to_compiled_class_hash' =
           [k \in new \cap Sierra |-> Casm(k)] ++ class_hash_to_compiled_class_hash
      /\ compiled_classes' =
           [h \in {Casm(k) : k \in new \cap Sierra} |-> h[2]] ++ compiled_classes
      /\ deprecated_compiled_classes' =
           deprecated_compiled_classes \cup (new \cap Legacy)
  BY <1>1 DEF add_compiled_class_to_os_input
<1>3. \A k : Casm(k)[2] = k
  BY DEF Casm
<1>4. /\ DOMAIN class_hash_to_compiled_class_hash' =
            (new \cap Sierra) \cup DOMAIN class_hash_to_compiled_class_hash
      /\ \A k \in new \cap Sierra : class_hash_to_compiled_class_hash'[k] = Casm(k)
      /\ \A k \in DOMAIN class_hash_to_compiled_class_hash \ new :
            class_hash_to_compiled_class_hash'[k] = class_hash_to_compiled_class_hash[k]
  BY <1>2 DEF ++
<1>5. /\ \A h \in DOMAIN compiled_classes : h \in DOMAIN compiled_classes'
      /\ \A k \in new \cap Sierra : /\ Casm(k) \in DOMAIN compiled_classes'
                                    /\ compiled_classes'[Casm(k)] = k
      /\ \A h \in DOMAIN compiled_classes :
            \/ compiled_classes'[h] = compiled_classes[h]
            \/ \E k : h = Casm(k) /\ compiled_classes'[h] = k
  BY <1>2, <1>3 DEF ++
<1>6. \A k, l : Casm(k) = Casm(l) => k = l
  BY <1>3
<1>7. ASSUME NEW k, KnownClass(k)
      PROVE  KnownClass(k)'
  BY <1>2, <1>4, <1>5, <1>6, <1>7 DEF KnownClass
<1>8. ASSUME NEW k \in ks, k \in Class
      PROVE  KnownClass(k)'
  <2>1. CASE k \in new
    BY <2>1, <1>2, <1>4, <1>5, <1>8 DEF KnownClass, Class
  <2>2. CASE k \notin new
    BY <2>2, <1>1, <1>7 DEF MapsInStep
  <2> QED BY <2>1, <2>2
<1>9. ASSUME NEW k \in DOMAIN class_hash_to_compiled_class_hash'
      PROVE  KnownClass(k)' /\ class_hash_to_compiled_class_hash'[k] = Casm(k)
  <2>1. CASE k \in new \cap Sierra
    BY <2>1, <1>4, <1>5 DEF KnownClass
  <2>2. CASE k \notin new \cap Sierra
    BY <2>2, <1>1, <1>4, <1>7 DEF MapsInStep
  <2> QED BY <2>1, <2>2
<1> QED BY <1>2, <1>4, <1>7, <1>8, <1>9 DEF MapsInStep

\* The loops over contracts and classes leave everything else alone.
LEMMA LoopKeeps ==
    ASSUME IInv, phase = "classes", phase' = phase, outcome' = outcome,
           UNCHANGED network, UNCHANGED transactions, UNCHANGED replay,
           UNCHANGED os, MapsInStep', StepsCollected'
    PROVE  IInv'
<1>1. NetworkInv' /\ block' = block
  BY NetworkKept DEF IInv
<1>2. outcome = "ok"
  BY DEF IInv, InputsInv, Fresh
<1>3. Fresh'
  BY DEF IInv, InputsInv, Fresh, replay, os, Collecting, Started
<1>4. Converted'
  BY <1>1 DEF IInv, InputsInv, Converted
<1> QED BY <1>1, <1>2, <1>3, <1>4
      DEF IInv, InputsInv, ReplayInStep, ContractsRead,
          Collecting, Formatted, Replayed, Ready, Started,
          OsInv, TxInScope, ClassesInStep, CompiledInStep, Failures,
          ClassesAreFound, DeclarationsFindZero, DeploysAreAnswered, Accepted

LEMMA AddContractStep ==
    ASSUME IInv, AddContractClasses
    PROVE  IInv'
<1>1. /\ phase = "classes" /\ phase' = phase /\ outcome' = outcome
      /\ UNCHANGED network /\ UNCHANGED transactions /\ UNCHANGED replay
      /\ UNCHANGED os /\ UNCHANGED <<accessed_classes, declared_classes,
                                     declared_class_hash_component_hashes>>
  BY DEF AddContractClasses
<1>2. PICK c \in accessed_addresses :
         /\ accessed_addresses' = accessed_addresses \ {c}
         /\ add_compiled_class_to_os_input(
                ({get_class_hash_at(prevClass, c)} \ {NoClass})
                    \cup {get_class_hash_at(class, c)})
  BY DEF AddContractClasses
<1>3. PICK ks : ks = ({get_class_hash_at(prevClass, c)} \ {NoClass})
                        \cup {get_class_hash_at(class, c)}
  OBVIOUS
<1>4. MapsInStep /\ StepsCollected
  BY DEF IInv, InputsInv
<1>5. add_compiled_class_to_os_input(ks)
  BY <1>2, <1>3
<1>6. /\ \A k : KnownClass(k) => KnownClass(k)'
      /\ \A k \in ks : k \in Class => KnownClass(k)'
      /\ DOMAIN class_hash_to_compiled_class_hash' \subseteq Sierra
      /\ deprecated_compiled_classes' \subseteq Legacy
      /\ \A k \in DOMAIN class_hash_to_compiled_class_hash' :
            KnownClass(k)' /\ class_hash_to_compiled_class_hash'[k] = Casm(k)
  BY <1>1, <1>4, <1>5, AddedKnown
<1>7. /\ class' = class /\ block' = block /\ class[c] \in ks
      /\ state_diff_declared_classes' = state_diff_declared_classes
  BY <1>1, <1>3, NetworkKept DEF IInv, get_class_hash_at
<1>8. MapsInStep'
  BY <1>1, <1>6 DEF MapsInStep, Formatted, Collecting
<1>9. StepsCollected'
  <2>1. ASSUME NEW i \in DOMAIN block, NEW j \in DOMAIN block[i].steps,
               block[i].steps[j].op \in RunOps
        PROVE  /\ \/ block[i].steps[j].class \in accessed_classes'
                  \/ KnownClass(block[i].steps[j].class)'
               /\ \/ block[i].steps[j].contract \in accessed_addresses'
                  \/ class[block[i].steps[j].contract] = NoClass
                  \/ KnownClass(class[block[i].steps[j].contract])'
    <3>1. /\ \/ block[i].steps[j].class \in accessed_classes
             \/ KnownClass(block[i].steps[j].class)
          /\ \/ block[i].steps[j].contract \in accessed_addresses
             \/ class[block[i].steps[j].contract] = NoClass
             \/ KnownClass(class[block[i].steps[j].contract])
      BY <1>1, <1>4, <2>1 DEF StepsCollected, Collecting
    <3>2. PICK x, k : x = block[i].steps[j].contract /\ k = block[i].steps[j].class
      OBVIOUS
    <3>3. x \in Contract /\ (class[x] = NoClass \/ class[x] \in Class)
      BY <3>2, BlockIndexed DEF IInv, NetworkInv, NetworkTypes, StepOf
    <3>4. PICK l : l = class[x]
      OBVIOUS
    <3>5. (k \in accessed_classes' \/ KnownClass(k)')
            /\ (x \in accessed_addresses' \/ l = NoClass \/ KnownClass(l)')
      BY <3>1, <3>2, <3>3, <3>4, <1>1, <1>2, <1>6, <1>7
    <3> QED BY <3>2, <3>4, <3>5, <1>7 DEF KnownClass
  <2> QED BY <2>1, <1>1, <1>4, <1>7 DEF StepsCollected, Formatted, Collecting, KnownClass
<1> QED BY <1>1, <1>8, <1>9, LoopKeeps

LEMMA AddAccessedStep ==
    ASSUME IInv, AddAccessedClass
    PROVE  IInv'
<1>1. /\ phase = "classes" /\ phase' = phase /\ outcome' = outcome
      /\ UNCHANGED network /\ UNCHANGED transactions /\ UNCHANGED replay
      /\ UNCHANGED os /\ UNCHANGED <<accessed_addresses, declared_classes,
                                     declared_class_hash_component_hashes>>
  BY DEF AddAccessedClass
<1>2. PICK k \in accessed_classes :
         /\ accessed_classes' = accessed_classes \ {k}
         /\ add_compiled_class_to_os_input({k})
  BY DEF AddAccessedClass
<1>4. MapsInStep /\ StepsCollected
  BY DEF IInv, InputsInv
<1>6. /\ \A l : KnownClass(l) => KnownClass(l)'
      /\ k \in Class => KnownClass(k)'
      /\ DOMAIN class_hash_to_compiled_class_hash' \subseteq Sierra
      /\ deprecated_compiled_classes' \subseteq Legacy
      /\ \A l \in DOMAIN class_hash_to_compiled_class_hash' :
            KnownClass(l)' /\ class_hash_to_compiled_class_hash'[l] = Casm(l)
  BY <1>1, <1>2, <1>4, AddedKnown
<1>7. /\ class' = class /\ block' = block
      /\ state_diff_declared_classes' = state_diff_declared_classes
  BY <1>1, NetworkKept DEF IInv
<1>8. MapsInStep'
  BY <1>1, <1>6 DEF MapsInStep, Formatted, Collecting
<1>9. StepsCollected'
  <2>1. ASSUME NEW i \in DOMAIN block, NEW j \in DOMAIN block[i].steps,
               block[i].steps[j].op \in RunOps
        PROVE  /\ \/ block[i].steps[j].class \in accessed_classes'
                  \/ KnownClass(block[i].steps[j].class)'
               /\ \/ block[i].steps[j].contract \in accessed_addresses'
                  \/ class[block[i].steps[j].contract] = NoClass
                  \/ KnownClass(class[block[i].steps[j].contract])'
    <3>1. /\ \/ block[i].steps[j].class \in accessed_classes
             \/ KnownClass(block[i].steps[j].class)
          /\ \/ block[i].steps[j].contract \in accessed_addresses
             \/ class[block[i].steps[j].contract] = NoClass
             \/ KnownClass(class[block[i].steps[j].contract])
      BY <1>1, <1>4, <2>1 DEF StepsCollected, Collecting
    <3>2. PICK x, l, m : /\ x = block[i].steps[j].contract
                         /\ l = block[i].steps[j].class /\ m = class[x]
      OBVIOUS
    <3>3. l \in Class
      BY <2>1, <3>2 DEF IInv, NetworkInv, StepsMeant, StepMeant, RunOps
    <3>4. (l \in accessed_classes' \/ KnownClass(l)')
            /\ (x \in accessed_addresses' \/ m = NoClass \/ KnownClass(m)')
      BY <3>1, <3>2, <3>3, <1>1, <1>2, <1>6
    <3> QED BY <3>2, <3>4, <1>7 DEF KnownClass
  <2> QED BY <2>1, <1>1, <1>4, <1>7 DEF StepsCollected, Formatted, Collecting, KnownClass
<1> QED BY <1>1, <1>8, <1>9, LoopKeeps

LEMMA AddComponentStep ==
    ASSUME IInv, AddComponentHashes
    PROVE  IInv'
<1>1. /\ phase = "classes" /\ phase' = phase /\ outcome' = outcome
      /\ UNCHANGED network /\ UNCHANGED transactions /\ UNCHANGED replay
      /\ UNCHANGED os /\ UNCHANGED compiled
      /\ UNCHANGED <<accessed_addresses, accessed_classes>>
  BY DEF AddComponentHashes
<1>2. PICK k \in declared_classes :
         /\ declared_classes' = declared_classes \ {k}
         /\ declared_class_hash_component_hashes' =
              declared_class_hash_component_hashes \cup {k}
  BY DEF AddComponentHashes
<1>3. /\ class' = class /\ block' = block
      /\ state_diff_declared_classes' = state_diff_declared_classes
  BY <1>1, NetworkKept DEF IInv
<1>4. MapsInStep /\ StepsCollected
  BY DEF IInv, InputsInv
<1>5. MapsInStep'
  BY <1>1, <1>3, <1>4 DEF MapsInStep, KnownClass, compiled
<1>6. StepsCollected'
  BY <1>1, <1>2, <1>3, <1>4 DEF StepsCollected, KnownClass, compiled, Formatted, Collecting
<1> QED BY <1>1, <1>5, <1>6, LoopKeeps

LEMMA FinishStateStep ==
    ASSUME IInv, FinishStateUpdate
    PROVE  IInv'
<1>1. /\ phase = "classes" /\ phase' = "replay" /\ outcome' = outcome
      /\ accessed_addresses = {} /\ accessed_classes = {} /\ declared_classes = {}
      /\ UNCHANGED network /\ UNCHANGED transactions /\ UNCHANGED replay
      /\ UNCHANGED os /\ UNCHANGED toVisit
      /\ UNCHANGED <<compiled_classes, deprecated_compiled_classes,
                     declared_class_hash_component_hashes>>
  BY DEF FinishStateUpdate
<1>2. class_hash_to_compiled_class_hash' =
        [k \in state_diff_declared_classes |-> Zero] ++ class_hash_to_compiled_class_hash
  BY DEF FinishStateUpdate, format_declared_classes
<1>3. /\ NetworkInv' /\ class' = class /\ block' = block
      /\ state_diff_declared_classes' = state_diff_declared_classes
  BY <1>1, NetworkKept DEF IInv
<1>4. MapsInStep /\ StepsCollected
  BY DEF IInv, InputsInv
<1>5. outcome = "ok"
  BY <1>1 DEF IInv, InputsInv, Fresh
<1>6. /\ DOMAIN class_hash_to_compiled_class_hash' =
            state_diff_declared_classes \cup DOMAIN class_hash_to_compiled_class_hash
      /\ \A k \in DOMAIN class_hash_to_compiled_class_hash' :
            class_hash_to_compiled_class_hash'[k] =
                IF k \in state_diff_declared_classes THEN Zero
                ELSE class_hash_to_compiled_class_hash[k]
  BY <1>2 DEF ++
<1>7. state_diff_declared_classes \subseteq Sierra
  BY DEF state_diff_declared_classes
<1>8. MapsInStep'
  <2>1. \A k \in DOMAIN class_hash_to_compiled_class_hash' :
            class_hash_to_compiled_class_hash'[k] =
                IF k \in state_diff_declared_classes THEN Zero ELSE Casm(k)
    BY <1>1, <1>4, <1>6 DEF MapsInStep
  <2> QED BY <1>1, <1>3, <1>4, <1>6, <1>7, <2>1 DEF MapsInStep
<1>9. StepsCollected'
  <2>1. \A k : KnownClass(k) => KnownClass(k)'
    BY <1>1, <1>6 DEF KnownClass
  <2>2. ASSUME NEW i \in DOMAIN block, NEW j \in DOMAIN block[i].steps,
               block[i].steps[j].op \in RunOps
        PROVE  /\ KnownClass(block[i].steps[j].class)
               /\ \/ class[block[i].steps[j].contract] = NoClass
                  \/ KnownClass(class[block[i].steps[j].contract])
    BY <1>1, <1>4, <2>2 DEF StepsCollected, Collecting
  <2>3. ASSUME NEW i \in DOMAIN block, NEW j \in DOMAIN block[i].steps,
               block[i].steps[j].op \in RunOps
        PROVE  /\ KnownClass(block[i].steps[j].class)'
               /\ \/ class[block[i].steps[j].contract] = NoClass
                  \/ KnownClass(class[block[i].steps[j].contract])'
    <3>1. PICK l, m : l = block[i].steps[j].class /\ m = class[block[i].steps[j].contract]
      OBVIOUS
    <3>2. KnownClass(l)' /\ (m = NoClass \/ KnownClass(m)')
      BY <3>1, <2>1, <2>2, <2>3
    <3> QED BY <3>1, <3>2, <1>3 DEF KnownClass
  <2>4. state_diff_declared_classes \subseteq declared_class_hash_component_hashes
    BY <1>1, <1>4 DEF StepsCollected, Collecting
  <2> QED BY <2>3, <2>4, <1>1, <1>3 DEF StepsCollected, KnownClass, toVisit
<1>10. Fresh' /\ Converted'
  <2>1. Fresh'
    BY <1>1, <1>5 DEF IInv, InputsInv, Fresh, Collecting, Started, os, replay
  <2> QED BY <2>1, <1>1, <1>3 DEF IInv, InputsInv, Converted, Collecting
<1>11. ReplayInStep' /\ ContractsRead'
  BY <1>1 DEF IInv, InputsInv, Fresh, ReplayInStep, ContractsRead, Replayed, Ready,
              Formatted, Collecting, replay
<1> QED BY <1>1, <1>3, <1>5, <1>8, <1>9, <1>10, <1>11
      DEF IInv, InputsInv, Started, OsInv, TxInScope, ClassesInStep, CompiledInStep,
          Failures, ClassesAreFound, DeclarationsFindZero, DeploysAreAnswered, Accepted

\* What is collected stays.
LEMMA InputsKept ==
    ASSUME IInv, phase \in Formatted, phase' \in Formatted, outcome' = outcome,
           UNCHANGED network, UNCHANGED transactions, UNCHANGED toVisit,
           UNCHANGED compiled, UNCHANGED declared_class_hash_component_hashes
    PROVE  /\ NetworkInv' /\ Converted' /\ MapsInStep' /\ StepsCollected'
           /\ Failures' /\ outcome = "ok" /\ class' = class /\ block' = block
           /\ prevClass' = prevClass /\ Touched' = Touched
           /\ state_diff_declared_classes' = state_diff_declared_classes
<1>1. /\ NetworkInv' /\ class' = class /\ block' = block
      /\ state_diff_declared_classes' = state_diff_declared_classes
      /\ prevClass' = prevClass /\ Touched' = Touched
  BY NetworkKept DEF IInv
<1>2. phase \in Collecting /\ phase' \in Collecting /\ phase' # "classes" /\ phase # "stopped"
  BY DEF Formatted, Collecting
<1>3. outcome = "ok"
  BY <1>2 DEF IInv, InputsInv, Fresh
<1>4. Failures'
  BY <1>3 DEF Failures, ClassesAreFound, DeclarationsFindZero, DeploysAreAnswered, Accepted
<1>5. Converted'
  BY <1>1, <1>2 DEF IInv, InputsInv, Converted
<1>6. MapsInStep'
  BY <1>1, <1>2 DEF IInv, InputsInv, MapsInStep, compiled
<1>7. StepsCollected'
  BY <1>1, <1>2 DEF IInv, InputsInv, StepsCollected, KnownClass, compiled, toVisit
<1> QED BY <1>1, <1>3, <1>4, <1>5, <1>6, <1>7

LEMMA ToBlockifierStep ==
    ASSUME IInv, ToBlockifier
    PROVE  IInv'
<1>1. /\ phase = "replay" /\ UNCHANGED network /\ UNCHANGED transactions
      /\ UNCHANGED toVisit /\ UNCHANGED compiled
      /\ UNCHANGED declared_class_hash_component_hashes /\ UNCHANGED os
  BY DEF ToBlockifier
<1>2. CASE phase' = "stopped"
  <2>1. outcome' = "unimplemented"
    BY <1>1, <1>2 DEF ToBlockifier, Stop
  <2> QED BY <1>1, <1>2, <2>1, StoppedKeeps DEF compiled
<1>3. CASE phase' # "stopped"
  <2>1. /\ \A i \in DOMAIN block : IsReplayable(block[i])
        /\ txs' = [i \in DOMAIN block |->
                     starknet_rs_to_blockifier(block[i], block[i].gas)]
        /\ phase' = "replay" /\ outcome' = outcome
    BY <1>1, <1>3 DEF ToBlockifier, Stop
  <2>2. /\ NetworkInv' /\ Converted' /\ MapsInStep' /\ StepsCollected'
        /\ Failures' /\ outcome = "ok" /\ block' = block
    BY <1>1, <2>1, InputsKept DEF Formatted, Collecting
  <2>3. Fresh'
    BY <1>1, <2>1, <2>2 DEF IInv, InputsInv, Fresh, Collecting, Started, os
  <2>4. ReplayInStep' /\ ContractsRead' /\ OsInv'
    BY <2>1, <2>2 DEF ReplayInStep, BlockTxs, ContractsRead, Formatted, Replayed, Ready,
                Started, OsInv, TxInScope, ClassesInStep, CompiledInStep, Collecting
  <2> QED BY <2>2, <2>3, <2>4 DEF IInv, InputsInv
<1> QED BY <1>2, <1>3

LEMMA ReexecuteStep ==
    ASSUME IInv, reexecute_transactions_with_blockifier
    PROVE  IInv'
<1>1. /\ phase = "replay" /\ txs # <<>> /\ UNCHANGED network /\ UNCHANGED transactions
      /\ UNCHANGED toVisit /\ UNCHANGED compiled
      /\ UNCHANGED declared_class_hash_component_hashes /\ UNCHANGED os
  BY DEF reexecute_transactions_with_blockifier
<1>2. \A i \in DOMAIN block : IsExecutable(block[i], txs[i])
  <2>1. txs = BlockTxs /\ \A i \in DOMAIN block : IsReplayable(block[i])
    BY <1>1 DEF IInv, InputsInv, ReplayInStep
  <2>2. \A i \in DOMAIN block : block[i].gas \in Gas
    BY BlockIndexed DEF IInv, NetworkInv, NetworkTypes, Tx
  <2>3. \A i \in DOMAIN block :
            IsExecutable(block[i], starknet_rs_to_blockifier(block[i], block[i].gas))
    BY <2>1, <2>2, TransactionArrives DEF IInv, NetworkInv, NetworkTypes
  <2> QED BY <2>1, <2>3 DEF BlockTxs
<1>3. IInv'
  <2>1. /\ tx_execution_infos' = [i \in DOMAIN txs |-> execute(i)]
        /\ phase' = "contracts" /\ outcome' = outcome
    BY <1>2 DEF reexecute_transactions_with_blockifier
  <2>2. /\ NetworkInv' /\ Converted' /\ MapsInStep' /\ StepsCollected'
        /\ Failures' /\ outcome = "ok" /\ block' = block
    BY <1>1, <2>1, InputsKept DEF Formatted, Collecting
  <2>3. Fresh'
    BY <1>1, <2>1, <2>2 DEF IInv, InputsInv, Fresh, Collecting, Started, os
  <2>4. txs = BlockTxs /\ \A i \in DOMAIN block : IsReplayable(block[i])
    BY <1>1 DEF IInv, InputsInv, ReplayInStep
  <2>5. DOMAIN txs = DOMAIN block /\ \A i \in DOMAIN block : txs[i]["tx_hash"] = block[i].id
    <3>1. \A t, g : starknet_rs_to_blockifier(t, g)["tx_hash"] = t.id
      BY DEF starknet_rs_to_blockifier, ++
    <3> QED BY <2>4, <3>1 DEF BlockTxs
  <2>6. tx_execution_infos' =
          [i \in DOMAIN block |-> [tx_hash |-> block[i].id,
                                   is_reverted |-> block[i].reverted,
                                   steps |-> block[i].steps]]
    BY <2>1, <2>5 DEF execute
  <2>7. ReplayInStep' /\ ContractsRead' /\ OsInv'
    BY <2>1, <2>2, <2>4, <2>6 DEF ReplayInStep, ContractsRead, Formatted, Replayed, Ready,
                Started, OsInv, TxInScope, ClassesInStep, CompiledInStep, Collecting
  <2> QED BY <2>2, <2>3, <2>7 DEF IInv, InputsInv
<1> QED BY <1>3

LEMMA ReadContractsStep ==
    ASSUME IInv, ReadContracts
    PROVE  IInv'
<1>1. /\ phase = "contracts" /\ phase' = "initialize" /\ outcome' = outcome
      /\ UNCHANGED network /\ UNCHANGED transactions
      /\ UNCHANGED toVisit /\ UNCHANGED compiled
      /\ UNCHANGED declared_class_hash_component_hashes /\ UNCHANGED os
      /\ UNCHANGED <<txs, tx_execution_infos>>
      /\ contracts' = [c \in AccessedContracts |-> previous_class_hash(c)]
      /\ contract_address_to_class_hash' =
           [c \in AccessedContracts \ {BlockHashContract} |-> get_class_hash_at(class, c)]
  BY DEF ReadContracts
<1>2. /\ NetworkInv' /\ Converted' /\ MapsInStep' /\ StepsCollected'
      /\ Failures' /\ outcome = "ok" /\ block' = block /\ class' = class
      /\ prevClass' = prevClass /\ Touched' = Touched
  BY <1>1, InputsKept DEF Formatted, Collecting
<1>3. Fresh'
  BY <1>1, <1>2 DEF IInv, InputsInv, Fresh, Collecting, Started, os
<1>4. ReplayInStep'
  BY <1>1, <1>2 DEF IInv, InputsInv, ReplayInStep, Formatted, Replayed, Collecting
<1>5. AccessedContracts = Touched \cup {BlockHashContract}
  <2>1. tx_execution_infos =
          [i \in DOMAIN block |-> [tx_hash |-> block[i].id,
                                   is_reverted |-> block[i].reverted,
                                   steps |-> block[i].steps]]
    BY <1>1 DEF IInv, InputsInv, ReplayInStep, Formatted, Replayed, Collecting
  <2>2. DOMAIN tx_execution_infos = DOMAIN block
        /\ \A i \in DOMAIN block : tx_execution_infos[i].steps = block[i].steps
    BY <2>1
  <2> QED BY <2>2 DEF AccessedContracts, Touched
<1>6. BlockHashContract \notin Touched
  BY ProveBlockAssumption DEF Touched
<1>7. ContractsRead'
  <2>1. contracts' = [c \in Touched \cup {BlockHashContract} |->
                          IF c = BlockHashContract THEN NoClass ELSE prevClass[c]]
    BY <1>1, <1>5 DEF previous_class_hash, get_class_hash_at
  <2>2. contract_address_to_class_hash' = [c \in Touched |-> class[c]]
    BY <1>1, <1>5, <1>6 DEF get_class_hash_at
  <2> QED BY <2>1, <2>2, <1>2 DEF ContractsRead
<1> QED BY <1>1, <1>2, <1>3, <1>4, <1>7
      DEF IInv, InputsInv, Started, OsInv, TxInScope, ClassesInStep, CompiledInStep

LEMMA InitializeStep ==
    ASSUME IInv, InitializeOs
    PROVE  IInv'
<1>1. /\ phase = "initialize" /\ phase' = "os" /\ outcome' = outcome
      /\ UNCHANGED network /\ UNCHANGED inputs
      /\ UNCHANGED <<tx, tx_execution_info, next, step>>
      /\ osClass' = contracts /\ osCompiled' = class_hash_to_compiled_class_hash
  BY DEF InitializeOs, initialize_state_changes, initialize_class_hashes
<1>2. /\ UNCHANGED transactions /\ UNCHANGED toVisit /\ UNCHANGED compiled
      /\ UNCHANGED declared_class_hash_component_hashes /\ UNCHANGED replay
  BY <1>1 DEF inputs
<1>3. /\ NetworkInv' /\ Converted' /\ MapsInStep' /\ StepsCollected'
      /\ Failures' /\ outcome = "ok" /\ block' = block /\ class' = class
      /\ prevClass' = prevClass /\ Touched' = Touched
      /\ state_diff_declared_classes' = state_diff_declared_classes
  BY <1>1, <1>2, InputsKept DEF Formatted, Collecting
<1>4. Fresh'
  BY <1>1, <1>3 DEF IInv, InputsInv, Fresh, Collecting, Started
<1>5. ReplayInStep' /\ ContractsRead'
  BY <1>1, <1>2, <1>3 DEF IInv, InputsInv, ReplayInStep, ContractsRead, Ready,
                          Formatted, Replayed, Collecting, replay
<1>6. next = 0 /\ step = 0 /\ tx_execution_info = [steps |-> <<>>]
  BY <1>1 DEF IInv, InputsInv, Fresh, Started
<1>7. block \in Seq(Tx) /\ Len(block) \in Nat
  BY Indexed DEF IInv, NetworkInv, NetworkTypes
<1>8. TxInScope'
  <2>1. tx_execution_info'.steps \in Seq(StepOf)
    BY <1>1, <1>6
  <2> QED BY <1>1, <1>3, <1>6, <1>7, <2>1 DEF TxInScope
<1>9. \A i \in DOMAIN block : \A j \in DOMAIN block[i].steps : ~Earlier(i, j, 1, 1)
  BY <1>7, BlockIndexed DEF Earlier
<1>10. TxPlace' = 1 /\ StepPlace' = 1
  BY <1>1, <1>6 DEF TxPlace, StepPlace
<1>11. ClassesInStep'
  <2>1. contracts = [c \in Touched \cup {BlockHashContract} |->
                        IF c = BlockHashContract THEN NoClass ELSE prevClass[c]]
    BY <1>1 DEF IInv, InputsInv, ContractsRead, Ready
  <2>2. BlockHashContract \notin Touched
    BY ProveBlockAssumption DEF Touched
  <2>3. \A c \in Touched : ClassBefore(block, prevClass, 1, 1, c, contracts[c])
    BY <2>1, <2>2, <1>9 DEF ClassBefore
  <2>4. DOMAIN contracts = Touched \cup {BlockHashContract}
    BY <2>1
  <2> QED BY <2>3, <2>4, <1>1, <1>3, <1>10 DEF ClassesInStep
<1>12. CompiledInStep'
  <2>1. \A k : ~DeclaredBefore(block, 1, 1, k)
    BY <1>9 DEF DeclaredBefore
  <2>2. \A k \in DOMAIN class_hash_to_compiled_class_hash :
            class_hash_to_compiled_class_hash[k] =
                IF k \in state_diff_declared_classes THEN Zero ELSE Casm(k)
    BY <1>1 DEF IInv, InputsInv, MapsInStep, Formatted, Collecting
  <2> QED BY <2>1, <2>2, <1>1, <1>2, <1>3, <1>10 DEF CompiledInStep, compiled
<1> QED BY <1>3, <1>4, <1>5, <1>8, <1>11, <1>12 DEF IInv, InputsInv, OsInv

-----------------------------------------------------------------------------
(* The steps of the OS.                                                    *)

LEMMA DeclaredAdvances ==
    ASSUME NEW b \in Seq(Tx), NEW m \in DOMAIN b, NEW n \in DOMAIN b[m].steps, NEW k
    PROVE  DeclaredBefore(b, m, n + 1, k) <=>
              \/ DeclaredBefore(b, m, n, k)
              \/ b[m].steps[n].op = "declare" /\ b[m].steps[n].class = k
<1>1. \A i \in DOMAIN b : \A j \in DOMAIN b[i].steps :
          Earlier(i, j, m, n + 1) <=> Earlier(i, j, m, n) \/ (i = m /\ j = n)
  BY BlockIndexed DEF Earlier
<1> QED BY <1>1 DEF DeclaredBefore

LEMMA DeclaredCarried ==
    ASSUME NEW b \in Seq(Tx), NEW m \in DOMAIN b, NEW k
    PROVE  DeclaredBefore(b, m, Len(b[m].steps) + 1, k) <=>
              DeclaredBefore(b, m + 1, 1, k)
<1>1. \A i \in DOMAIN b : \A j \in DOMAIN b[i].steps :
          Earlier(i, j, m, Len(b[m].steps) + 1) <=> Earlier(i, j, m + 1, 1)
  BY BlockIndexed DEF Earlier
<1> QED BY <1>1 DEF DeclaredBefore

\* While the OS runs, the inputs stay.
LEMMA OsInputsKept ==
    ASSUME IInv, phase \in Started, phase' \in Started, outcome' = outcome,
           UNCHANGED network, UNCHANGED inputs
    PROVE  /\ NetworkInv' /\ InputsInv' /\ Failures'
           /\ block' = block /\ class' = class /\ prevClass' = prevClass
           /\ Touched' = Touched /\ transactions' = transactions
           /\ tx_execution_infos' = tx_execution_infos
           /\ class_hash_to_compiled_class_hash' = class_hash_to_compiled_class_hash
           /\ state_diff_declared_classes' = state_diff_declared_classes
<1>1. /\ UNCHANGED transactions /\ UNCHANGED toVisit /\ UNCHANGED compiled
      /\ UNCHANGED declared_class_hash_component_hashes /\ UNCHANGED replay
  BY DEF inputs
<1>2. /\ NetworkInv' /\ Converted' /\ MapsInStep' /\ StepsCollected'
      /\ Failures' /\ outcome = "ok" /\ block' = block /\ class' = class
      /\ prevClass' = prevClass /\ Touched' = Touched
      /\ state_diff_declared_classes' = state_diff_declared_classes
  BY <1>1, InputsKept DEF Formatted, Collecting, Started
<1>3. Fresh'
  BY <1>2 DEF Fresh, Collecting, Started
<1>4. ReplayInStep' /\ ContractsRead'
  BY <1>1, <1>2 DEF IInv, InputsInv, ReplayInStep, ContractsRead, Ready,
                    Formatted, Replayed, Collecting, replay, Started
<1> QED BY <1>1, <1>2, <1>3, <1>4 DEF InputsInv, compiled, replay

\* The block as the OS sees it.
LEMMA OsBlock ==
    ASSUME IInv, phase = "os"
    PROVE  /\ block \in Seq(Tx) /\ Len(block) \in Nat /\ DOMAIN block = 1 .. Len(block)
           /\ Len(transactions) = Len(block)
           /\ \A i \in DOMAIN block :
                 /\ transactions[i] = starknet_rs_tx_to_internal_tx(block[i])
                 /\ tx_execution_infos[i].steps = block[i].steps
                 /\ tx_execution_infos[i].tx_hash = block[i].id
                 /\ block[i].steps \in Seq(StepOf)
                 /\ IsReplayable(block[i]) /\ IsConverted(block[i])
           /\ next \in 0 .. Len(block) /\ step \in Nat
           /\ tx_execution_info.steps \in Seq(StepOf)
<1>1. block \in Seq(Tx) /\ Len(block) \in Nat /\ DOMAIN block = 1 .. Len(block)
  BY Indexed DEF IInv, NetworkInv, NetworkTypes
<1>2. /\ \A i \in DOMAIN block : IsConverted(block[i])
      /\ transactions = [i \in DOMAIN block |-> starknet_rs_tx_to_internal_tx(block[i])]
  BY DEF IInv, InputsInv, Converted, Collecting
<1>3. /\ \A i \in DOMAIN block : IsReplayable(block[i])
      /\ tx_execution_infos =
              [i \in DOMAIN block |-> [tx_hash |-> block[i].id,
                                       is_reverted |-> block[i].reverted,
                                       steps |-> block[i].steps]]
  BY DEF IInv, InputsInv, ReplayInStep, Replayed, Formatted, Collecting
<1>4. Len(transactions) = Len(block)
  BY <1>1, <1>2
<1>5. \A i \in DOMAIN block : block[i].steps \in Seq(StepOf)
  BY <1>1, BlockIndexed DEF Tx
<1>6. /\ next \in 0 .. Len(block) /\ step \in Nat
      /\ tx_execution_info.steps \in Seq(StepOf)
  BY DEF IInv, OsInv, TxInScope, Started
<1> QED BY <1>1, <1>2, <1>3, <1>4, <1>5, <1>6

LEMMA LoadStep ==
    ASSUME IInv, LoadNextTx
    PROVE  IInv'
<1>1. /\ phase = "os" /\ step = 0 /\ next < Len(transactions)
      /\ tx' = transactions[next + 1] /\ tx_execution_info' = tx_execution_infos[next + 1]
      /\ next' = next + 1 /\ step' = 1
      /\ UNCHANGED network /\ UNCHANGED inputs /\ UNCHANGED <<osClass, osCompiled>>
  BY DEF LoadNextTx
<1>2. assert_transaction_hash(block[next + 1], tx')
  <2>1. /\ block \in Seq(Tx) /\ next + 1 \in DOMAIN block
        /\ transactions[next + 1] = starknet_rs_tx_to_internal_tx(block[next + 1])
        /\ IsReplayable(block[next + 1])
    <3>1. block \in Seq(Tx) /\ next + 1 \in DOMAIN block
      BY <1>1, OsBlock
    <3> QED BY <1>1, <3>1, OsBlock
  <2>2. block[next + 1].gas \in Gas
    BY <2>1, BlockIndexed DEF Tx
  <2>3. <<block[next + 1].type, block[next + 1].version>> \in Kinds
    BY <2>1 DEF IInv, NetworkInv, NetworkTypes
  <2> QED BY <1>1, <2>1, <2>2, <2>3, TransactionArrives
<1>3. IInv'
  <2>1. phase' = "os" /\ outcome' = outcome
    BY <1>1, <1>2 DEF LoadNextTx
  <2>2. /\ NetworkInv' /\ InputsInv' /\ Failures'
        /\ block' = block /\ class' = class /\ prevClass' = prevClass
        /\ Touched' = Touched /\ transactions' = transactions
        /\ tx_execution_infos' = tx_execution_infos
        /\ class_hash_to_compiled_class_hash' = class_hash_to_compiled_class_hash
        /\ state_diff_declared_classes' = state_diff_declared_classes
    BY <1>1, <2>1, OsInputsKept DEF Started
  <2>3. /\ Len(block) \in Nat /\ next + 1 \in DOMAIN block
        /\ tx_execution_infos[next + 1].steps \in Seq(StepOf)
        /\ Len(block[next + 1].steps) \in Nat
    <3>1. Len(block) \in Nat /\ next + 1 \in DOMAIN block
      BY <1>1, OsBlock
    <3>2. /\ tx_execution_infos[next + 1].steps \in Seq(StepOf)
          /\ block[next + 1].steps \in Seq(StepOf)
      BY <1>1, <3>1, OsBlock
    <3> QED BY <3>1, <3>2, Indexed
  <2>4. TxInScope'
    BY <1>1, <2>1, <2>2, <2>3, OsBlock DEF TxInScope
  <2>5. TxPlace' = TxPlace /\ StepPlace' = StepPlace
    BY <1>1, <2>3 DEF TxPlace, StepPlace
  <2>6. ClassesInStep' /\ CompiledInStep'
    BY <1>1, <2>1, <2>2, <2>5 DEF IInv, OsInv, ClassesInStep, CompiledInStep, Started
  <2> QED BY <2>2, <2>4, <2>6 DEF IInv, OsInv
<1> QED BY <1>3

LEMMA EndTxStep ==
    ASSUME IInv, EndTx
    PROVE  IInv'
<1>1. /\ phase = "os" /\ phase' = phase /\ outcome' = outcome
      /\ step > Len(tx_execution_info.steps) /\ step' = 0
      /\ UNCHANGED <<tx, tx_execution_info, next, osClass, osCompiled>>
      /\ UNCHANGED network /\ UNCHANGED inputs
  BY DEF EndTx
<1>2. /\ NetworkInv' /\ InputsInv' /\ Failures'
      /\ block' = block /\ class' = class /\ prevClass' = prevClass
      /\ Touched' = Touched /\ transactions' = transactions
      /\ tx_execution_infos' = tx_execution_infos
      /\ class_hash_to_compiled_class_hash' = class_hash_to_compiled_class_hash
      /\ state_diff_declared_classes' = state_diff_declared_classes
  BY <1>1, OsInputsKept DEF Started
<1>3. step > 0 /\ step \in Nat
  <2>1. Len(tx_execution_info.steps) \in Nat /\ step \in Nat
    BY <1>1, OsBlock, Indexed
  <2> QED BY <1>1, <2>1
<1>4. /\ next \in DOMAIN block /\ next \in Nat /\ step = Len(block[next].steps) + 1
  <2>1. /\ next \in DOMAIN block /\ step <= Len(block[next].steps) + 1
        /\ tx_execution_info = tx_execution_infos[next]
    BY <1>1, <1>3 DEF IInv, OsInv, TxInScope, Started
  <2>2. tx_execution_info.steps = block[next].steps /\ next \in Nat
    BY <1>1, <2>1, OsBlock
  <2>3. Len(block[next].steps) \in Nat
    BY <1>1, <2>1, OsBlock, BlockIndexed
  <2> QED BY <1>1, <1>3, <2>1, <2>2, <2>3
<1>5. TxInScope'
  BY <1>1, <1>2, <1>4, OsBlock DEF TxInScope
<1>6. /\ TxPlace = next /\ StepPlace = Len(block[next].steps) + 1
      /\ TxPlace' = next + 1 /\ StepPlace' = 1
  BY <1>1, <1>3, <1>4 DEF TxPlace, StepPlace
<1>7. ClassesInStep'
  <2>1. \A c \in Touched : ClassBefore(block, prevClass, next, Len(block[next].steps) + 1,
                                       c, osClass[c])
    BY <1>1, <1>6 DEF IInv, OsInv, ClassesInStep, Started
  <2>2. \A c \in Touched : ClassBefore(block, prevClass, next + 1, 1, c, osClass[c])
    BY <1>1, <1>4, <2>1, OsBlock, ClassCarried
  <2> QED BY <1>1, <1>2, <1>6, <2>2 DEF IInv, OsInv, ClassesInStep, Started
<1>8. CompiledInStep'
  <2>1. \A k : DeclaredBefore(block, next, Len(block[next].steps) + 1, k) <=>
                   DeclaredBefore(block, next + 1, 1, k)
    BY <1>1, <1>4, OsBlock, DeclaredCarried
  <2> QED BY <1>1, <1>2, <1>6, <2>1 DEF IInv, OsInv, CompiledInStep, Started
<1> QED BY <1>2, <1>5, <1>7, <1>8 DEF IInv, OsInv

LEMMA FinishOsStep ==
    ASSUME IInv, FinishOs
    PROVE  IInv'
<1>1. /\ phase = "os" /\ phase' = "done" /\ outcome' = outcome
      /\ step = 0 /\ next = Len(transactions)
      /\ UNCHANGED os /\ UNCHANGED network /\ UNCHANGED inputs
  BY DEF FinishOs
<1>2. /\ NetworkInv' /\ InputsInv' /\ Failures'
      /\ block' = block /\ class' = class /\ prevClass' = prevClass
      /\ Touched' = Touched /\ transactions' = transactions
      /\ tx_execution_infos' = tx_execution_infos
      /\ class_hash_to_compiled_class_hash' = class_hash_to_compiled_class_hash
      /\ state_diff_declared_classes' = state_diff_declared_classes
  BY <1>1, OsInputsKept DEF Started
<1>3. Len(transactions) = Len(block)
  BY <1>1, OsBlock
<1>4. OsInv'
  BY <1>1, <1>2, <1>3 DEF IInv, OsInv, TxInScope, ClassesInStep, CompiledInStep,
                          TxPlace, StepPlace, Started, os
<1> QED BY <1>2, <1>4 DEF IInv

\* The step the OS takes is the one of the block at its place.
LEMMA CurrentStep ==
    ASSUME IInv, InTx
    PROVE  /\ next \in DOMAIN block /\ step \in DOMAIN block[next].steps
           /\ next \in Nat /\ step \in Nat /\ step # 0
           /\ Current = block[next].steps[step] /\ Current \in StepOf
           /\ tx = starknet_rs_tx_to_internal_tx(block[next])
           /\ StepMeant(block, prevClass, next, step)
           /\ TxPlace = next /\ StepPlace = step
           /\ Current.contract \in Touched
<1>1. phase = "os" /\ step > 0 /\ step <= Len(tx_execution_info.steps)
  BY DEF InTx
<1>2. /\ next \in DOMAIN block /\ step \in Nat
      /\ tx = transactions[next] /\ tx_execution_info = tx_execution_infos[next]
  BY <1>1 DEF IInv, OsInv, TxInScope, Started
<1>3. /\ tx_execution_info.steps = block[next].steps /\ next \in Nat
      /\ tx = starknet_rs_tx_to_internal_tx(block[next]) /\ block \in Seq(Tx)
  BY <1>1, <1>2, OsBlock
<1>4. step \in DOMAIN block[next].steps
  BY <1>1, <1>2, <1>3, BlockIndexed
<1>5. Current = block[next].steps[step] /\ Current \in StepOf
  BY <1>2, <1>3, <1>4, BlockIndexed DEF Current
<1>6. StepMeant(block, prevClass, next, step)
  BY <1>2, <1>4 DEF IInv, NetworkInv, StepsMeant
<1>7. TxPlace = next /\ StepPlace = step /\ step # 0
  BY <1>1, <1>2 DEF TxPlace, StepPlace
<1>8. Current.contract \in Touched
  BY <1>2, <1>4, <1>5 DEF Touched, StepOf
<1> QED BY <1>2, <1>3, <1>4, <1>5, <1>6, <1>7, <1>8

\* Its class is found.
LEMMA FindsCurrent ==
    ASSUME IInv, InTx, Current.op \in RunOps
    PROVE  Finds(Current.class)
<1>1. PICK k : k = Current.class
  OBVIOUS
<1>2. /\ next \in DOMAIN block /\ step \in DOMAIN block[next].steps
      /\ Current = block[next].steps[step]
      /\ StepMeant(block, prevClass, next, step)
      /\ TxPlace = next /\ StepPlace = step /\ phase = "os"
  BY CurrentStep DEF InTx
<1>3. KnownClass(k)
  BY <1>1, <1>2 DEF IInv, InputsInv, StepsCollected, Formatted, Collecting
<1>4. k \in OldClasses \/ DeclaredBefore(block, next, step, k)
  BY <1>1, <1>2 DEF StepMeant, RunOps
<1>5. CASE k \in deprecated_compiled_classes
  BY <1>1, <1>5 DEF Finds, is_deprecated, deprecated_class_hashes
<1>6. CASE k \notin deprecated_compiled_classes
  <2>1. /\ k \in DOMAIN class_hash_to_compiled_class_hash
        /\ Casm(k) \in DOMAIN compiled_classes /\ compiled_classes[Casm(k)] = k
    BY <1>3, <1>6 DEF KnownClass
  <2>2. k \in DOMAIN osCompiled /\ osCompiled[k] = Casm(k)
    BY <1>2, <1>4, <2>1
    DEF IInv, OsInv, CompiledInStep, Started, state_diff_declared_classes
  <2> QED BY <1>1, <2>1, <2>2 DEF Finds
<1> QED BY <1>5, <1>6

\* A contract has the class that the OS has for it.
LEMMA HasCurrent ==
    ASSUME IInv, InTx, NEW k,
           ClassBefore(block, prevClass, next, step, Current.contract, k)
    PROVE  Current.contract \in DOMAIN osClass /\ osClass[Current.contract] = k
<1>1. /\ Current.contract \in Touched /\ next \in Nat /\ step \in Nat
      /\ TxPlace = next /\ StepPlace = step /\ phase = "os" /\ block \in Seq(Tx)
  BY CurrentStep, OsBlock DEF InTx
<1>2. /\ Current.contract \in DOMAIN osClass
      /\ ClassBefore(block, prevClass, next, step, Current.contract,
                     osClass[Current.contract])
  BY <1>1 DEF IInv, OsInv, ClassesInStep, Started
<1> QED BY <1>1, <1>2, ClassUnique

\* A step that is taken keeps the OS in step if its dictionaries are.
LEMMA OsKeeps ==
    ASSUME IInv, InTx, phase' = phase, outcome' = outcome, step' = step + 1,
           UNCHANGED network, UNCHANGED inputs,
           UNCHANGED <<tx, tx_execution_info, next>>,
           DOMAIN osClass' = DOMAIN osClass,
           \A c \in Touched :
               ClassBefore(block, prevClass, next, step + 1, c, osClass'[c]),
           DOMAIN osCompiled' = DOMAIN osCompiled,
           \A k \in DOMAIN osCompiled :
               osCompiled'[k] =
                   IF /\ k \in state_diff_declared_classes
                      /\ ~DeclaredBefore(block, next, step + 1, k)
                   THEN Zero ELSE Casm(k)
    PROVE  IInv'
<1>1. /\ next \in DOMAIN block /\ step \in DOMAIN block[next].steps
      /\ next \in Nat /\ step \in Nat /\ step # 0 /\ phase = "os"
  BY CurrentStep DEF InTx
<1>2. /\ NetworkInv' /\ InputsInv' /\ Failures'
      /\ block' = block /\ class' = class /\ prevClass' = prevClass
      /\ Touched' = Touched /\ transactions' = transactions
      /\ tx_execution_infos' = tx_execution_infos
      /\ class_hash_to_compiled_class_hash' = class_hash_to_compiled_class_hash
      /\ state_diff_declared_classes' = state_diff_declared_classes
  BY <1>1, OsInputsKept DEF Started
<1>3. TxPlace' = next /\ StepPlace' = step + 1
  BY <1>1 DEF TxPlace, StepPlace
<1>4. TxInScope'
  <2>1. step + 1 <= Len(block[next].steps) + 1 /\ step + 1 > 0 /\ step + 1 \in Nat
    BY <1>1, OsBlock, BlockIndexed
  <2>2. /\ next \in 0 .. Len(block) /\ tx_execution_info.steps \in Seq(StepOf)
        /\ tx = transactions[next] /\ tx_execution_info = tx_execution_infos[next]
    BY <1>1 DEF IInv, OsInv, TxInScope, Started
  <2> QED BY <1>1, <1>2, <2>1, <2>2 DEF TxInScope
<1>5. ClassesInStep'
  <2>1. DOMAIN osClass = Touched \cup {BlockHashContract}
    BY <1>1 DEF IInv, OsInv, ClassesInStep, Started
  <2> QED BY <2>1, <1>2, <1>3 DEF ClassesInStep
<1>6. CompiledInStep'
  <2>1. DOMAIN osCompiled = DOMAIN class_hash_to_compiled_class_hash
    BY <1>1 DEF IInv, OsInv, CompiledInStep, Started
  <2> QED BY <2>1, <1>2, <1>3 DEF CompiledInStep
<1> QED BY <1>2, <1>4, <1>5, <1>6 DEF IInv, OsInv

\* The dictionaries before the step.
LEMMA OsDictionaries ==
    ASSUME IInv, InTx
    PROVE  /\ DOMAIN osClass = Touched \cup {BlockHashContract}
           /\ \A c \in Touched : ClassBefore(block, prevClass, next, step, c, osClass[c])
           /\ DOMAIN osCompiled = DOMAIN class_hash_to_compiled_class_hash
           /\ \A k \in DOMAIN osCompiled :
                 osCompiled[k] =
                     IF /\ k \in state_diff_declared_classes
                        /\ ~DeclaredBefore(block, next, step, k)
                     THEN Zero ELSE Casm(k)
<1>1. TxPlace = next /\ StepPlace = step /\ phase = "os"
  BY CurrentStep DEF InTx
<1> QED BY <1>1 DEF IInv, OsInv, ClassesInStep, CompiledInStep, Started

\* A step that gives no class leaves the dictionary of contracts in step, ...
LEMMA ClassesUndisturbed ==
    ASSUME IInv, InTx, Current.op \notin {"deploy", "replace"}
    PROVE  \A c \in Touched :
               ClassBefore(block, prevClass, next, step + 1, c, osClass[c])
<1>1. /\ next \in DOMAIN block /\ step \in DOMAIN block[next].steps
      /\ Current = block[next].steps[step] /\ block \in Seq(Tx)
  BY CurrentStep, OsBlock DEF InTx
<1>2. \A c : ~Gives(block[next].steps[step], c)
  BY <1>1 DEF Gives
<1> QED BY <1>1, <1>2, OsDictionaries, ClassKept

\* ... one that gives a contract a class does when the dictionary is updated, ...
LEMMA ClassesUpdated ==
    ASSUME IInv, InTx, Current.op \in {"deploy", "replace"},
           osClass' = [osClass EXCEPT ![Current.contract] = Current.class]
    PROVE  /\ DOMAIN osClass' = DOMAIN osClass
           /\ \A c \in Touched :
                 ClassBefore(block, prevClass, next, step + 1, c, osClass'[c])
<1>1. /\ next \in DOMAIN block /\ step \in DOMAIN block[next].steps
      /\ Current = block[next].steps[step] /\ block \in Seq(Tx)
  BY CurrentStep, OsBlock DEF InTx
<1>2. /\ DOMAIN osClass = Touched \cup {BlockHashContract}
      /\ \A c \in Touched : ClassBefore(block, prevClass, next, step, c, osClass[c])
  BY OsDictionaries
<1>3. ASSUME NEW c \in Touched
      PROVE  ClassBefore(block, prevClass, next, step + 1, c, osClass'[c])
  <2>1. CASE c = Current.contract
    <3>1. Gives(block[next].steps[step], c)
      BY <1>1, <2>1 DEF Gives
    <3>2. osClass'[c] = block[next].steps[step].class
      BY <1>1, <1>2, <2>1
    <3>3. ClassBefore(block, prevClass, next, step + 1, c, block[next].steps[step].class)
      BY <1>1, <3>1, ClassGiven
    <3> QED BY <3>2, <3>3
  <2>2. CASE c # Current.contract
    <3>1. ~Gives(block[next].steps[step], c)
      BY <1>1, <2>2 DEF Gives
    <3>2. osClass'[c] = osClass[c]
      BY <1>2, <2>2
    <3>3. ClassBefore(block, prevClass, next, step + 1, c, osClass[c])
      BY <1>1, <1>2, <3>1, ClassKept
    <3> QED BY <3>2, <3>3
  <2> QED BY <2>1, <2>2
<1> QED BY <1>2, <1>3

\* ... and one that declares none the dictionary of classes.
LEMMA CompiledUndisturbed ==
    ASSUME IInv, InTx, Current.op # "declare"
    PROVE  \A k \in DOMAIN osCompiled :
               osCompiled[k] =
                   IF /\ k \in state_diff_declared_classes
                      /\ ~DeclaredBefore(block, next, step + 1, k)
                   THEN Zero ELSE Casm(k)
<1>1. /\ next \in DOMAIN block /\ step \in DOMAIN block[next].steps
      /\ Current = block[next].steps[step] /\ block \in Seq(Tx)
  BY CurrentStep, OsBlock DEF InTx
<1>2. \A k : DeclaredBefore(block, next, step + 1, k) <=> DeclaredBefore(block, next, step, k)
  BY <1>1, DeclaredAdvances
<1> QED BY <1>2, OsDictionaries

LEMMA OsCallStep ==
    ASSUME IInv, OsCall
    PROVE  IInv'
<1>1. InTx /\ Current.op = "call" /\ UNCHANGED <<osClass, osCompiled>>
  BY DEF OsCall
<1>2. ClassBefore(block, prevClass, next, step, Current.contract, Current.class)
  BY <1>1, CurrentStep DEF StepMeant
<1>3. /\ Current.contract \in DOMAIN osClass
      /\ osClass[Current.contract] = Current.class
      /\ Finds(Current.class)
  <2>1. Current.op \in RunOps
    BY <1>1 DEF RunOps
  <2> QED BY <1>1, <1>2, <2>1, HasCurrent, FindsCurrent
<1>4. /\ phase' = phase /\ outcome' = outcome /\ step' = step + 1
      /\ UNCHANGED network /\ UNCHANGED inputs
      /\ UNCHANGED <<tx, tx_execution_info, next>>
  BY <1>3 DEF OsCall, OsStep
<1>5. /\ \A c \in Touched : ClassBefore(block, prevClass, next, step + 1, c, osClass[c])
      /\ \A k \in DOMAIN osCompiled :
            osCompiled[k] = IF /\ k \in state_diff_declared_classes
                               /\ ~DeclaredBefore(block, next, step + 1, k)
                            THEN Zero ELSE Casm(k)
  BY <1>1, ClassesUndisturbed, CompiledUndisturbed
<1> QED BY <1>1, <1>4, <1>5, OsKeeps

LEMMA OsLibraryStep ==
    ASSUME IInv, OsLibraryCall
    PROVE  IInv'
<1>1. InTx /\ Current.op = "library" /\ UNCHANGED <<osClass, osCompiled>>
  BY DEF OsLibraryCall
<1>2. Finds(Current.class)
  BY <1>1, FindsCurrent DEF RunOps
<1>3. /\ phase' = phase /\ outcome' = outcome /\ step' = step + 1
      /\ UNCHANGED network /\ UNCHANGED inputs
      /\ UNCHANGED <<tx, tx_execution_info, next>>
  BY <1>2 DEF OsLibraryCall, OsStep
<1>4. /\ \A c \in Touched : ClassBefore(block, prevClass, next, step + 1, c, osClass[c])
      /\ \A k \in DOMAIN osCompiled :
            osCompiled[k] = IF /\ k \in state_diff_declared_classes
                               /\ ~DeclaredBefore(block, next, step + 1, k)
                            THEN Zero ELSE Casm(k)
  BY <1>1, ClassesUndisturbed, CompiledUndisturbed
<1> QED BY <1>1, <1>3, <1>4, OsKeeps

LEMMA OsReplaceStep ==
    ASSUME IInv, OsReplaceClass
    PROVE  IInv'
<1>1. /\ InTx /\ Current.op = "replace" /\ UNCHANGED osCompiled
      /\ osClass' = [osClass EXCEPT ![Current.contract] = Current.class]
      /\ phase' = phase /\ outcome' = outcome /\ step' = step + 1
      /\ UNCHANGED network /\ UNCHANGED inputs
      /\ UNCHANGED <<tx, tx_execution_info, next>>
  BY DEF OsReplaceClass, OsStep
<1>2. /\ DOMAIN osClass' = DOMAIN osClass
      /\ \A c \in Touched : ClassBefore(block, prevClass, next, step + 1, c, osClass'[c])
  BY <1>1, ClassesUpdated
<1>3. \A k \in DOMAIN osCompiled :
          osCompiled[k] = IF /\ k \in state_diff_declared_classes
                             /\ ~DeclaredBefore(block, next, step + 1, k)
                          THEN Zero ELSE Casm(k)
  BY <1>1, CompiledUndisturbed
<1> QED BY <1>1, <1>2, <1>3, OsKeeps

\* A contract that a step of the block deploys ends with a class.
LEMMA EndsWithClass ==
    ASSUME NetworkInv, NEW i \in DOMAIN block, NEW j \in DOMAIN block[i].steps,
           NEW c \in Contract, Gives(block[i].steps[j], c)
    PROVE  class[c] \in Class
<1>1. ClassBefore(block, prevClass, Len(block) + 1, 1, c, class[c])
  BY DEF NetworkInv, ClassesNow
<1>2. block \in Seq(Tx)
  BY DEF NetworkInv, NetworkTypes
<1>3. Earlier(i, j, Len(block) + 1, 1)
  BY <1>2, BlockIndexed DEF Earlier
<1>4. PICK g \in DOMAIN block : \E h \in DOMAIN block[g].steps :
          Gives(block[g].steps[h], c) /\ block[g].steps[h].class = class[c]
  BY <1>1, <1>3 DEF ClassBefore
<1>5. PICK h \in DOMAIN block[g].steps :
          Gives(block[g].steps[h], c) /\ block[g].steps[h].class = class[c]
  BY <1>4
<1>6. StepMeant(block, prevClass, g, h)
  BY DEF NetworkInv, StepsMeant
<1> QED BY <1>5, <1>6 DEF StepMeant, Gives

\* DeployHandler finds the last class of the contract, unless the block has
\* declared it.
LEMMA LooksUpLast ==
    ASSUME IInv, InTx, Current.op = "deploy",
           class[Current.contract] \notin Sierra \ OldClasses
    PROVE  DeployLookup(Current.contract) = {class[Current.contract]}
<1>1. PICK c, last : c = Current.contract /\ last = class[c]
  OBVIOUS
<1>2. /\ next \in DOMAIN block /\ step \in DOMAIN block[next].steps
      /\ Current = block[next].steps[step] /\ c \in Touched /\ c \in Contract
      /\ phase = "os"
  BY <1>1, CurrentStep DEF InTx, Touched
<1>3. last \in Class /\ last # NoClass
  <2>1. Gives(block[next].steps[step], c)
    BY <1>1, <1>2 DEF Gives
  <2> QED BY <1>1, <1>2, <2>1, EndsWithClass, ProveBlockAssumption DEF IInv
<1>4. KnownClass(last)
  <2>1. accessed_addresses = {}
    BY <1>2 DEF IInv, InputsInv, StepsCollected, Formatted, Collecting
  <2> QED BY <1>1, <1>2, <1>3, <2>1
      DEF IInv, InputsInv, StepsCollected, Collecting, RunOps
<1>5. /\ c \in DOMAIN contract_address_to_class_hash
      /\ contract_address_to_class_hash[c] = last
  BY <1>1, <1>2 DEF IInv, InputsInv, ContractsRead, Ready
<1>6. DeployLookup(c) =
        IF last \in DOMAIN class_hash_to_compiled_class_hash
        THEN IF class_hash_to_compiled_class_hash[last] \in DOMAIN compiled_classes
             THEN {compiled_classes[class_hash_to_compiled_class_hash[last]]} ELSE {}
        ELSE {last} \cap deprecated_compiled_classes
  BY <1>5 DEF DeployLookup
<1>7. CASE last \in Sierra
  <2>1. /\ last \in DOMAIN class_hash_to_compiled_class_hash
        /\ Casm(last) \in DOMAIN compiled_classes /\ compiled_classes[Casm(last)] = last
    BY <1>4, <1>7, ProveBlockAssumption DEF KnownClass
  <2>2. last \notin state_diff_declared_classes
    BY <1>1, <1>7 DEF state_diff_declared_classes
  <2>3. class_hash_to_compiled_class_hash[last] = Casm(last)
    BY <1>2, <2>1, <2>2 DEF IInv, InputsInv, MapsInStep, Formatted, Collecting
  <2> QED BY <1>1, <1>6, <2>1, <2>3
<1>8. CASE last \notin Sierra
  <2>1. last \in deprecated_compiled_classes
    BY <1>4, <1>8 DEF KnownClass
  <2>2. last \notin DOMAIN class_hash_to_compiled_class_hash
    BY <1>8 DEF IInv, InputsInv, MapsInStep
  <2> QED BY <1>1, <1>6, <2>1, <2>2
<1> QED BY <1>7, <1>8

\* A run that stops in DeployHandler.
LEMMA DeployStops ==
    ASSUME IInv, InTx, Current.op = "deploy",
           ~DeployIsAnswered(Current.contract, Current.class),
           phase' = "stopped", outcome' = "deploy", step' = step + 1,
           UNCHANGED network, UNCHANGED inputs, UNCHANGED <<tx, tx_execution_info, next>>
    PROVE  IInv'
<1>1. NetworkInv'
  BY NetworkKept DEF IInv
<1>2. Fresh' /\ MapsInStep'
  BY DEF IInv, InputsInv, Fresh, MapsInStep, Formatted, Collecting, Started,
         inputs, compiled
<1>3. DeploysAreAnswered'
  <2>1. class' = class /\ tx_execution_info' = tx_execution_info /\ step' - 1 = step
    BY CurrentStep DEF network
  <2>2. tx_execution_info'.steps[step' - 1] = Current
    BY <2>1 DEF Current
  <2>3. \/ class[Current.contract] \in Sierra \ OldClasses
        \/ need_retdata_hack(class[Current.contract]) # need_retdata_hack(Current.class)
    <3>1. SUFFICES ASSUME class[Current.contract] \notin Sierra \ OldClasses
                   PROVE  need_retdata_hack(class[Current.contract])
                              # need_retdata_hack(Current.class)
      OBVIOUS
    <3>2. DeployLookup(Current.contract) = {class[Current.contract]}
      BY <3>1, LooksUpLast
    <3>3. ~(need_retdata_hack(class[Current.contract]) <=> need_retdata_hack(Current.class))
      BY <3>2 DEF DeployIsAnswered
    <3> QED BY <3>3 DEF need_retdata_hack
  <2> QED BY <2>1, <2>2, <2>3 DEF DeploysAreAnswered, need_retdata_hack
<1> QED BY <1>1, <1>2, <1>3
      DEF IInv, InputsInv, Converted, StepsCollected, ReplayInStep, ContractsRead,
          Collecting, Formatted, Replayed, Ready, Started,
          OsInv, TxInScope, ClassesInStep, CompiledInStep, Failures,
          ClassesAreFound, DeclarationsFindZero, Accepted

LEMMA OsDeployStep ==
    ASSUME IInv, OsDeploy
    PROVE  IInv'
<1>1. /\ InTx /\ Current.op = "deploy" /\ UNCHANGED osCompiled
      /\ osClass' = [osClass EXCEPT ![Current.contract] = Current.class]
  BY DEF OsDeploy
<1>2. CASE Current.caller \in Sierra /\ ~DeployIsAnswered(Current.contract, Current.class)
  <2>1. /\ phase' = "stopped" /\ outcome' = "deploy" /\ step' = step + 1
        /\ UNCHANGED network /\ UNCHANGED inputs
        /\ UNCHANGED <<tx, tx_execution_info, next>>
    BY <1>2 DEF OsDeploy, OsStep, Stop
  <2> QED BY <1>1, <1>2, <2>1, DeployStops
<1>3. CASE ~(Current.caller \in Sierra /\ ~DeployIsAnswered(Current.contract, Current.class))
  <2>1. ClassBefore(block, prevClass, next, step, Current.contract, NoClass)
    BY <1>1, CurrentStep DEF StepMeant
  <2>2. /\ Current.contract \in DOMAIN osClass
        /\ osClass[Current.contract] = NoClass
        /\ Finds(Current.class)
    <3>1. Current.op \in RunOps
      BY <1>1 DEF RunOps
    <3> QED BY <1>1, <2>1, <3>1, HasCurrent, FindsCurrent
  <2>3. /\ phase' = phase /\ outcome' = outcome /\ step' = step + 1
        /\ UNCHANGED network /\ UNCHANGED inputs
        /\ UNCHANGED <<tx, tx_execution_info, next>>
    BY <1>3, <2>2 DEF OsDeploy, OsStep
  <2>4. /\ DOMAIN osClass' = DOMAIN osClass
        /\ \A c \in Touched : ClassBefore(block, prevClass, next, step + 1, c, osClass'[c])
    BY <1>1, ClassesUpdated
  <2>5. \A k \in DOMAIN osCompiled :
            osCompiled[k] = IF /\ k \in state_diff_declared_classes
                               /\ ~DeclaredBefore(block, next, step + 1, k)
                            THEN Zero ELSE Casm(k)
    BY <1>1, CompiledUndisturbed
  <2> QED BY <1>1, <2>3, <2>4, <2>5, OsKeeps
<1> QED BY <1>2, <1>3

\* The version of the transaction in scope is the one of the block.
LEMMA VersionInScope ==
    ASSUME NEW t
    PROVE  starknet_rs_tx_to_internal_tx(t)["version"] = t.version
  BY DEF starknet_rs_tx_to_internal_tx, ++

LEMMA OsDeclareStep ==
    ASSUME IInv, OsDeclare
    PROVE  IInv'
<1>1. InTx /\ Current.op = "declare" /\ UNCHANGED osClass
  BY DEF OsDeclare
<1>2. PICK k : k = Current.class
  OBVIOUS
<1>3. /\ next \in DOMAIN block /\ step \in DOMAIN block[next].steps
      /\ Current = block[next].steps[step] /\ block \in Seq(Tx) /\ phase = "os"
      /\ StepMeant(block, prevClass, next, step)
      /\ next \in Nat /\ step \in Nat /\ tx["version"] = block[next].version
      /\ block[next].version \in 0 .. 3
  <2>1. tx = starknet_rs_tx_to_internal_tx(block[next])
    BY <1>1, CurrentStep
  <2>2. next \in DOMAIN block /\ block \in Seq(Tx)
    BY <1>1, CurrentStep, OsBlock DEF InTx
  <2>3. block[next].version \in 0 .. 3
    BY <2>2, BlockIndexed DEF Tx
  <2>4. tx["version"] = block[next].version
    BY <2>1, VersionInScope
  <2> QED BY <1>1, <2>2, <2>3, <2>4, CurrentStep DEF InTx
<1>4. /\ k \in Class \ OldClasses /\ ~DeclaredBefore(block, next, step, k)
      /\ k \in Sierra <=> tx["version"] >= 2
  BY <1>1, <1>2, <1>3 DEF StepMeant
<1>5. \A c \in Touched : ClassBefore(block, prevClass, next, step + 1, c, osClass[c])
  BY <1>1, ClassesUndisturbed
<1>6. \A l : DeclaredBefore(block, next, step + 1, l) <=>
                 DeclaredBefore(block, next, step, l) \/ l = k
  BY <1>1, <1>2, <1>3, DeclaredAdvances
<1>7. /\ DOMAIN osCompiled = DOMAIN class_hash_to_compiled_class_hash
      /\ DOMAIN osCompiled \subseteq Sierra
      /\ \A l \in DOMAIN osCompiled :
            osCompiled[l] = IF /\ l \in state_diff_declared_classes
                               /\ ~DeclaredBefore(block, next, step, l)
                            THEN Zero ELSE Casm(l)
  BY <1>1, OsDictionaries DEF IInv, InputsInv, MapsInStep
<1>8. CASE tx["version"] <= 1
  <2>1. k \notin Sierra
    BY <1>3, <1>4, <1>8
  <2>2. /\ phase' = phase /\ outcome' = outcome /\ step' = step + 1
        /\ UNCHANGED network /\ UNCHANGED inputs /\ UNCHANGED osCompiled
        /\ UNCHANGED <<tx, tx_execution_info, next>>
    BY <1>8 DEF OsDeclare, OsStep
  <2>3. \A l \in DOMAIN osCompiled :
            osCompiled[l] = IF /\ l \in state_diff_declared_classes
                               /\ ~DeclaredBefore(block, next, step + 1, l)
                            THEN Zero ELSE Casm(l)
    BY <1>6, <1>7, <2>1
  <2> QED BY <1>1, <1>5, <2>2, <2>3, OsKeeps
<1>9. CASE ~(tx["version"] <= 1)
  <2>1. k \in Sierra
    BY <1>3, <1>4, <1>9
  <2>2. k \in state_diff_declared_classes
    <3>1. Earlier(next, step, Len(block) + 1, 1)
      BY <1>3, BlockIndexed DEF Earlier
    <3>2. DeclaredBefore(block, Len(block) + 1, 1, k)
      BY <1>1, <1>2, <1>3, <3>1 DEF DeclaredBefore
    <3>3. k \in declared
      BY <1>4, <3>2 DEF IInv, NetworkInv, DeclaredNow
    <3> QED BY <1>4, <2>1, <3>3 DEF state_diff_declared_classes
  <2>3. /\ k \in declared_class_hash_component_hashes
        /\ k \in DOMAIN osCompiled /\ osCompiled[k] = Zero
    <3>1. declared_classes = {} /\ state_diff_declared_classes \subseteq
              declared_classes \cup declared_class_hash_component_hashes
      BY <1>3 DEF IInv, InputsInv, StepsCollected, Formatted, Collecting
    <3>2. k \in DOMAIN osCompiled
      BY <1>3, <1>7, <2>2 DEF IInv, InputsInv, MapsInStep, Formatted, Collecting
    <3> QED BY <1>4, <1>7, <2>2, <3>1, <3>2
  <2>4. /\ phase' = phase /\ outcome' = outcome /\ step' = step + 1
        /\ UNCHANGED network /\ UNCHANGED inputs
        /\ UNCHANGED <<tx, tx_execution_info, next>>
        /\ osCompiled' = [j \in {k} |-> Casm(j)] ++ osCompiled
    BY <1>2, <1>9, <2>3 DEF OsDeclare, OsStep
  <2>5. DOMAIN osCompiled' = DOMAIN osCompiled
    BY <2>3, <2>4 DEF ++
  <2>6. osCompiled'[k] = Casm(k) /\ \A l \in DOMAIN osCompiled : l # k =>
                                        osCompiled'[l] = osCompiled[l]
    BY <2>3, <2>4 DEF ++
  <2>7. \A l \in DOMAIN osCompiled :
            osCompiled'[l] = IF /\ l \in state_diff_declared_classes
                                /\ ~DeclaredBefore(block, next, step + 1, l)
                             THEN Zero ELSE Casm(l)
    BY <1>6, <1>7, <2>6
  <2> QED BY <1>1, <1>5, <2>4, <2>5, <2>7, OsKeeps
<1> QED BY <1>8, <1>9

LEMMA StutterStep ==
    ASSUME IInv, UNCHANGED vars
    PROVE  IInv'
<1>1. /\ UNCHANGED network /\ UNCHANGED phase /\ UNCHANGED outcome
      /\ UNCHANGED transactions /\ UNCHANGED toVisit /\ UNCHANGED compiled
      /\ UNCHANGED declared_class_hash_component_hashes /\ UNCHANGED replay
      /\ UNCHANGED os
  BY DEF vars, inputs
<1>2. NetworkInv'
  BY <1>1, NetworkKept DEF IInv
<1>3. InputsInv'
  BY <1>1 DEF IInv, InputsInv, Fresh, Converted, MapsInStep, StepsCollected, KnownClass,
              ReplayInStep, BlockTxs, ContractsRead, Touched, state_diff_declared_classes,
              network, toVisit, compiled, replay, os
<1>4. OsInv'
  BY <1>1 DEF IInv, OsInv, TxInScope, ClassesInStep, CompiledInStep, TxPlace, StepPlace,
              Touched, state_diff_declared_classes, network, compiled, replay, os
<1>5. Failures'
  BY <1>1 DEF IInv, Failures, ClassesAreFound, DeclarationsFindZero,
              DeploysAreAnswered, Accepted, network, os
<1> QED BY <1>2, <1>3, <1>4, <1>5 DEF IInv

-----------------------------------------------------------------------------
(* The theorems.                                                           *)

LEMMA NextStep ==
    ASSUME IInv, [Next]_vars
    PROVE  IInv'
<1>1. CASE SequenceInvoke \/ SequenceL1Handler \/ SequenceDeclare
           \/ SequenceDeployAccount \/ SequenceDeploy
  BY <1>1, SequencesStep
<1>2. CASE Seal
  BY <1>2, SealStep
<1>3. CASE ConvertTransactions
  BY <1>3, ConvertStep
<1>4. CASE AddContractClasses
  BY <1>4, AddContractStep
<1>5. CASE AddAccessedClass
  BY <1>5, AddAccessedStep
<1>6. CASE AddComponentHashes
  BY <1>6, AddComponentStep
<1>7. CASE FinishStateUpdate
  BY <1>7, FinishStateStep
<1>8. CASE ToBlockifier
  BY <1>8, ToBlockifierStep
<1>9. CASE reexecute_transactions_with_blockifier
  BY <1>9, ReexecuteStep
<1>10. CASE ReadContracts
  BY <1>10, ReadContractsStep
<1>11. CASE InitializeOs
  BY <1>11, InitializeStep
<1>12. CASE LoadNextTx
  BY <1>12, LoadStep
<1>13. CASE EndTx
  BY <1>13, EndTxStep
<1>14. CASE FinishOs
  BY <1>14, FinishOsStep
<1>15. CASE OsCall
  BY <1>15, OsCallStep
<1>16. CASE OsLibraryCall
  BY <1>16, OsLibraryStep
<1>17. CASE OsReplaceClass
  BY <1>17, OsReplaceStep
<1>18. CASE OsDeploy
  BY <1>18, OsDeployStep
<1>19. CASE OsDeclare
  BY <1>19, OsDeclareStep
<1>20. CASE UNCHANGED vars
  BY <1>20, StutterStep
<1>21. CASE Terminated
  BY <1>21, StutterStep DEF Terminated
<1> QED
  BY <1>1, <1>2, <1>3, <1>4, <1>5, <1>6, <1>7, <1>8, <1>9, <1>10, <1>11, <1>12,
     <1>13, <1>14, <1>15, <1>16, <1>17, <1>18, <1>19, <1>20, <1>21 DEF Next

\* The invariant of prove_block: the state of the network is the one at the end
\* of its block, the inputs hold what the steps of the block need, and the
\* dictionaries of the OS are those of the place of the block it has reached.
THEOREM Invariant == Spec => []IInv
<1>1. Init => IInv
  BY InitInv
<1>2. IInv /\ [Next]_vars => IInv'
  BY NextStep
<1> QED BY <1>1, <1>2, PTL DEF Spec

\* Whatever the block does, the OS finds every class it runs where it looks
\* for it: get_subcalled_contracts_from_tx_traces and the classes before and
\* after the block are enough.
THEOREM Classes == Spec => []ClassesAreFound
<1>1. IInv => ClassesAreFound
  BY DEF IInv, Failures
<1> QED BY <1>1, Invariant, PTL

\* Every Cairo 1 declaration finds 0 in the dictionary of classes, and its
\* component hashes: format_declared_classes writes the 0 over the hash of a
\* class that was also used in the block, and over no other.
THEOREM Declarations == Spec => []DeclarationsFindZero
<1>1. IInv => DeclarationsFindZero
  BY DEF IInv, Failures
<1> QED BY <1>1, Invariant, PTL

\* DeployHandler leaves no deployment unanswered but for the two reasons that
\* DeploysAreAnswered names.
THEOREM Deploys == Spec => []DeploysAreAnswered
<1>1. IInv => DeploysAreAnswered
  BY DEF IInv, Failures
<1> QED BY <1>1, Invariant, PTL

\* Blockifier and the OS accept every transaction that is converted, and the
\* execution info that load_next_tx takes is the one of the transaction it takes.
THEOREM Transaction == Spec => []OneTransaction
<1>1. IInv => OneTransaction
  <2>1. SUFFICES ASSUME IInv, phase = "os", step > 0
                 PROVE  /\ tx["hash_value"] = tx_execution_info.tx_hash
                        /\ block[next].id = tx["hash_value"]
    BY DEF IInv, Failures, Accepted, OneTransaction
  <2>2. /\ next \in DOMAIN block /\ tx = transactions[next]
        /\ tx_execution_info = tx_execution_infos[next]
    BY <2>1 DEF IInv, OsInv, TxInScope, Started
  <2>3. /\ tx = starknet_rs_tx_to_internal_tx(block[next])
        /\ tx_execution_info.tx_hash = block[next].id
    BY <2>1, <2>2, OsBlock
  <2>4. starknet_rs_tx_to_internal_tx(block[next])["hash_value"] = block[next].id
    BY DEF starknet_rs_tx_to_internal_tx, ++
  <2> QED BY <2>3, <2>4
<1> QED BY <1>1, Invariant, PTL

\* A run that ends has taken the dictionaries of the OS from the state of the
\* network before the block to the state after it.
THEOREM Reaches == Spec => []OsReachesTheBlock
<1>1. IInv => OsReachesTheBlock
  <2>1. SUFFICES ASSUME IInv, phase = "done" PROVE OsReachesTheBlock
    BY DEF OsReachesTheBlock
  <2>2. /\ step = 0 /\ next = Len(block) /\ block \in Seq(Tx) /\ Len(block) \in Nat
    BY <2>1, Indexed DEF IInv, OsInv, TxInScope, Started, NetworkInv, NetworkTypes
  <2>3. TxPlace = Len(block) + 1 /\ StepPlace = 1
    BY <2>2 DEF TxPlace, StepPlace
  <2>4. /\ DOMAIN osClass = Touched \cup {BlockHashContract} /\ Touched \subseteq Contract
        /\ \A c \in Touched :
              ClassBefore(block, prevClass, Len(block) + 1, 1, c, osClass[c])
    BY <2>1, <2>3 DEF IInv, OsInv, ClassesInStep, Started, Touched
  <2>5. \A c \in Contract : ClassBefore(block, prevClass, Len(block) + 1, 1, c, class[c])
    BY <2>1 DEF IInv, NetworkInv, ClassesNow
  <2>6. \A c \in DOMAIN osClass \ {BlockHashContract} : osClass[c] = class[c]
    BY <2>2, <2>4, <2>5, ClassUnique
  <2>7. \A c \in Contract \ DOMAIN osClass : class[c] = prevClass[c]
    <3>1. SUFFICES ASSUME NEW c \in Contract \ DOMAIN osClass
                   PROVE  class[c] = prevClass[c]
      OBVIOUS
    <3>2. c \notin Touched
      BY <2>4
    <3>3. \A i \in DOMAIN block : \A j \in DOMAIN block[i].steps :
              ~Gives(block[i].steps[j], c)
      BY <3>2 DEF Touched, Gives
    <3> QED BY <2>5, <3>3 DEF ClassBefore
  <2>8. \A k \in state_diff_declared_classes : DeclaredBefore(block, Len(block) + 1, 1, k)
    BY <2>1 DEF IInv, NetworkInv, NetworkTypes, DeclaredNow, state_diff_declared_classes
  <2>9. \A k \in DOMAIN osCompiled : osCompiled[k] = Casm(k)
    BY <2>1, <2>3, <2>8 DEF IInv, OsInv, CompiledInStep, Started
  <2>10. state_diff_declared_classes \subseteq DOMAIN osCompiled
    BY <2>1 DEF IInv, InputsInv, MapsInStep, OsInv, CompiledInStep, Started,
                Formatted, Collecting
  <2> QED BY <2>6, <2>7, <2>9, <2>10 DEF OsReachesTheBlock
<1> QED BY <1>1, Invariant, PTL

=============================================================================
