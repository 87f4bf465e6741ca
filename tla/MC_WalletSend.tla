--------------------------- MODULE MC_WalletSend ---------------------------
(***************************************************************************)
(* Two concurrent calls on one account: call 1 sends on chain 1, chain 2   *)
(* and chain 1 again, so its second chain-1 path uses lastUsedNonce + 1    *)
(* across a path on another chain; call 2 sends once on chain 1 and races  *)
(* it.  Two ids and two rows that differ in every filtered column: r1 goes *)
(* from a1 to a2 on chain 1 with cross-chain id "x" and type Send (0); r2  *)
(* goes from a2 to a1 on chain 2 with no cross-chain id and type Swap (1). *)
(* The calls insert r1.  The details range over every combination of set   *)
(* and unset filters, including the all-unset value NewMultiTxDetails      *)
(* returns.                                                                *)
(***************************************************************************)
EXTENDS WalletSend, TLC

MCRows == {[from |-> "a1", to |-> "a2", chain |-> 1, cross |-> "x", type |-> 0],
           [from |-> "a2", to |-> "a1", chain |-> 2, cross |-> "", type |-> 1]}
MCMTRow == [from |-> "a1", to |-> "a2", chain |-> 1, cross |-> "x", type |-> 0]
MCDetails ==
  [ids : {{}, {1}}, anyAddress : {"zero", "a1"}, fromAddress : {"zero", "a1"},
   toAddress : {"zero", "a1"}, toChainID : {0, 1}, crossTxID : {"", "x"},
   type : {0, 1, 2}]
MCPaths == (1 :> <<1, 2, 1>>) @@ (2 :> <<1>>)
MCCallID == (1 :> 1) @@ (2 :> 2)
=============================================================================
