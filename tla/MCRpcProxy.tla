----------------------------- MODULE MCRpcProxy -----------------------------
(* RpcProxy for TLC: two networks, the testnet with a repeated and a blank origin. *)
EXTENDS RpcProxy

CONSTANTS c1, testnet, mainnet, gateway, extra, fly, main, blank

MCCalls == {c1}
MCNetworks == {testnet, mainnet}
MCOrigins == [n \in MCNetworks |->
  IF n = testnet THEN <<gateway, fly, blank, gateway, extra, fly>> ELSE <<main>>]

=============================================================================
