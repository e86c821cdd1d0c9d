----------------------------- MODULE MCChainlink -----------------------------
(***************************************************************************)
(* Instances of Chainlink for TLC: two accounts, either of which may        *)
(* register as an operator and make requests.                              *)
(***************************************************************************)
EXTENDS Chainlink

CONSTANTS a1, a2

Funds == [a \in Accounts |-> 2]
=============================================================================
