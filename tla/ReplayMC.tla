------------------------------ MODULE ReplayMC ------------------------------
(***************************************************************************)
(* Recorded blocks for TLC: call trees up to three levels deep, of Cairo 1 *)
(* and Cairo 0 code, with calls, failed calls, deployments and constructor- *)
(* less deployments, and every kind of transaction.                        *)
(***************************************************************************)
EXTENDS Replay

MCAddress == 1..6
MCValue == 0..4

Call(type, addr, failed, reads, inner, deprecated, noEntry) ==
    [entry_point_type |-> type, storage_address |-> addr, failed |-> failed,
     retdata |-> addr % 5, storage_read_values |-> reads,
     inner_calls |-> inner, deprecated |-> deprecated,
     no_entry_point |-> noEntry]

Leaves == { Call("External", 1, FALSE, <<1, 2>>, <<>>, FALSE, FALSE),
            Call("External", 2, TRUE, <<>>, <<>>, FALSE, FALSE),
            Call("Constructor", 3, FALSE, <<3>>, <<>>, TRUE, FALSE),
            Call("Constructor", 4, FALSE, <<>>, <<>>, FALSE, TRUE) }

UpTo2(S) == {<<>>} \cup {<<a>> : a \in S} \cup {<<a, b>> : a, b \in S}

\* Cairo 0 code does not survive a failed inner call.
CodeOver(inner, deprecated) ==
    deprecated => \A i \in DOMAIN inner : ~inner[i].failed

Middle == { Call("External", 5, FALSE, <<4>>, inner, FALSE, FALSE)
                : inner \in UpTo2(Leaves) }
     \cup { Call("Constructor", 5, FALSE, <<4>>, inner, TRUE, FALSE)
                : inner \in {s \in UpTo2(Leaves) : CodeOver(s, TRUE)} }

Roots == { Call("External", 6, FALSE, <<0>>, <<m, l>>, FALSE, FALSE)
                : m \in Middle, l \in Leaves }
    \cup { Call("External", 6, FALSE, <<0>>, <<l, m>>, TRUE, FALSE)
                : m \in Middle, l \in {x \in Leaves : ~x.failed} }
Account == { Call("Constructor", 6, FALSE, <<2>>, <<l>>, FALSE, FALSE) : l \in Leaves }
Validate == Call("External", 2, FALSE, <<1>>, <<>>, TRUE, FALSE)
Fee == Call("External", 1, FALSE, <<3>>, <<>>, TRUE, FALSE)

MCCallInfo == Leaves \cup Middle \cup Roots \cup Account \cup {Validate, Fee}

Tx(type, validate, execute, fee, reverted) ==
    [tx_type |-> type, validate_call_info |-> validate,
     execute_call_info |-> execute, fee_transfer_call_info |-> fee,
     is_reverted |-> reverted]

Invokes == { Tx("INVOKE", Validate, r, Fee, FALSE) : r \in Roots }
Deploys == { Tx("DEPLOY_ACCOUNT", Validate, a, Fee, FALSE) : a \in Account }
Others == { Tx("INVOKE", Validate, None, Fee, TRUE),
            Tx("DECLARE", Validate, None, None, FALSE),
            Tx("DECLARE_V0", None, None, None, FALSE) }
      \cup { Tx("L1_HANDLER", None, m, None, FALSE)
                : m \in {x \in Middle : x.entry_point_type = "External"} }

MCTransactions == Invokes \cup Deploys \cup Others

MCBlocks == {<<t>> : t \in Invokes}
       \cup {<<t, u>> : t \in Deploys \cup Others, u \in Deploys \cup Others}

-----------------------------------------------------------------------------
(***************************************************************************)
(* A block in which the constructor of a deployment failed and its caller, *)
(* Cairo 1 code, went on.                                                  *)
(***************************************************************************)
FailedConstructor == Call("Constructor", 3, TRUE, <<>>, <<>>, FALSE, FALSE)
Deployers == { Call("External", 5, FALSE, <<4>>, inner, FALSE, FALSE)
                  : inner \in UpTo2({FailedConstructor} \cup Leaves) }

FailedDeployCallInfo == {FailedConstructor, Validate, Fee} \cup Leaves \cup Deployers
FailedDeployTransactions ==
    { Tx("INVOKE", Validate, d, Fee, FALSE) : d \in Deployers }
FailedDeployBlocks == { <<t>> : t \in FailedDeployTransactions }

=============================================================================
