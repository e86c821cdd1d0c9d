------------------------------ MODULE FluxData ------------------------------
(***************************************************************************)
(* EthereumFluxAggregator.GetContractData (contracts/ethereum_contracts.go)*)
(* while the contract is in use.  It makes four calls, each of which sees  *)
(* the contract as it is at that moment (Pending: true), so what it        *)
(* returns is no snapshot: transactions may come in between.               *)
(***************************************************************************)
EXTENDS FluxAggregator

VARIABLES
  data,      \* the calls that were made so far, and what they returned
  ceiling    \* LINK the contract had at the first call, and received since

dataVars == <<vars, data, ceiling>>

NoData == [pc |-> "idle"]

\* The views, as the binding FluxAggregatorCaller returns them; LatestRoundData
\* reverts when the latest round has no answer.
AllocatedFunds == recordedFunds.allocated

AvailableFunds == recordedFunds.available

LatestRoundData == [roundId |-> latestRoundId,
                    answeredInRound |-> rounds[latestRoundId].answeredInRound]

GetOracles == oracleAddresses

\* Any of the calls may fail, and the data is empty then.
CallFails ==
  /\ data.pc \in {"available", "round", "oracles"}
  /\ data' = NoData
  /\ ceiling' = 0

\* Mutant: the available funds are read before the allocated ones.
GetContractData_swapped ==
  \/ /\ data.pc = "idle"
     /\ data' = [pc |-> "available", available |-> AvailableFunds]
     /\ ceiling' = link
  \/ /\ data.pc = "available"
     /\ data' = [pc |-> "round", allocated |-> AllocatedFunds, available |-> data.available]
     /\ UNCHANGED ceiling

\* The calls of GetContractData, in the order of the code.
GetContractData ==
  \/ /\ data.pc \in {"idle", "returned"}
     /\ data' = [pc |-> "available", allocated |-> AllocatedFunds]
     /\ ceiling' = link
  \/ /\ data.pc = "available"
     /\ data' = [pc |-> "round", allocated |-> data.allocated, available |-> AvailableFunds]
     /\ UNCHANGED ceiling
  \/ /\ data.pc = "round"
     /\ HasData(latestRoundId)
     /\ data' = [pc |-> "oracles", allocated |-> data.allocated,
                 available |-> data.available, latestRound |-> LatestRoundData]
     /\ UNCHANGED ceiling
  \/ /\ data.pc = "oracles"
     /\ data' = [pc |-> "returned", allocated |-> data.allocated,
                 available |-> data.available, latestRound |-> data.latestRound,
                 oracles |-> GetOracles]
     /\ UNCHANGED ceiling
  \/ CallFails

\* LINK that arrives during the calls raises the ceiling.
Raised == IF link' > link /\ data.pc # "idle" THEN ceiling + (link' - link) ELSE ceiling

DataInit == Init /\ data = NoData /\ ceiling = 0

DataNext ==
  \/ /\ Next
     /\ ceiling' = Raised
     /\ UNCHANGED data
  \/ GetContractData /\ UNCHANGED vars

DataSpec == DataInit /\ [][DataNext]_dataVars

-----------------------------------------------------------------------------
\* The funds in the data, AllocatedFunds and AvailableFunds, are never more than
\* the LINK there was: a payment between the two calls is not counted twice.
DataNeverOvercounts ==
  data.pc \in {"round", "oracles", "returned"} => data.allocated + data.available <= ceiling
=============================================================================
