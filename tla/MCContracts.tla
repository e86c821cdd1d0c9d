---------------------------- MODULE MCContracts ----------------------------
(* Two processes that share the default wallet, like the test packages of    *)
(* client and contracts.                                                     *)
EXTENDS Contracts

MCPrograms ==
  {[a |-> {"SendTransaction"}, b |-> {"Store", "Set"}],
   [a |-> {}, b |-> {"Store", "Set", "SetDefault"}],
   [a |-> {"SendTransaction"}, b |-> {"VRF", "FundEth"}],
   [a |-> {}, b |-> {"LinkToken", "FluxAggregator", "FundEth", "FundLink", "SetOracles"}],
   [a |-> {}, b |-> {"OffchainAggregator", "SetPayees", "SetConfig", "SetDefault"}]}
============================================================================
