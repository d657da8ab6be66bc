----------------------------- MODULE ProveBlockMC -----------------------------
(***************************************************************************)
(* ProveBlock for TLC.  Blocks of two transactions are of every kind; a    *)
(* class that is declared, used and given up again takes three.            *)
(***************************************************************************)
EXTENDS ProveBlock

MCLongKinds == {<<"INVOKE_FUNCTION", 3>>, <<"DECLARE", 3>>, <<"DEPLOY_ACCOUNT", 3>>}
=============================================================================
