------------------------------- MODULE Events -------------------------------
(***************************************************************************)
(* The events of the three bindings that have any: for each the name and   *)
(* the topic rules FilterX and WatchX hand over, in this order; and the    *)
(* indexed arguments as the ABI of the contract has them.                  *)
(***************************************************************************)
EXTENDS EventLogs, TLC

-----------------------------------------------------------------------------
(* contracts/ethereum/FluxAggregator.go *)
FluxAggregatorAnswerUpdated == Event("AnswerUpdated", <<"current", "roundId">>)
FluxAggregatorAvailableFundsUpdated == Event("AvailableFundsUpdated", <<"amount">>)
FluxAggregatorNewRound == Event("NewRound", <<"roundId", "startedBy">>)
FluxAggregatorOracleAdminUpdateRequested ==
  Event("OracleAdminUpdateRequested", <<"oracle">>)
FluxAggregatorOracleAdminUpdated ==
  Event("OracleAdminUpdated", <<"oracle", "newAdmin">>)
FluxAggregatorOraclePermissionsUpdated ==
  Event("OraclePermissionsUpdated", <<"oracle", "whitelisted">>)
FluxAggregatorOwnershipTransferRequested ==
  Event("OwnershipTransferRequested", <<"from", "to">>)
FluxAggregatorOwnershipTransferred ==
  Event("OwnershipTransferred", <<"from", "to">>)
FluxAggregatorRequesterPermissionsSet ==
  Event("RequesterPermissionsSet", <<"requester">>)
FluxAggregatorRoundDetailsUpdated ==
  Event("RoundDetailsUpdated", <<"paymentAmount", "minSubmissionCount", "maxSubmissionCount">>)
FluxAggregatorSubmissionReceived ==
  Event("SubmissionReceived", <<"submission", "round", "oracle">>)
FluxAggregatorValidatorUpdated ==
  Event("ValidatorUpdated", <<"previous", "current">>)

FluxAggregatorEvents ==
  {FluxAggregatorAnswerUpdated,
   FluxAggregatorAvailableFundsUpdated,
   FluxAggregatorNewRound,
   FluxAggregatorOracleAdminUpdateRequested,
   FluxAggregatorOracleAdminUpdated,
   FluxAggregatorOraclePermissionsUpdated,
   FluxAggregatorOwnershipTransferRequested,
   FluxAggregatorOwnershipTransferred,
   FluxAggregatorRequesterPermissionsSet,
   FluxAggregatorRoundDetailsUpdated,
   FluxAggregatorSubmissionReceived,
   FluxAggregatorValidatorUpdated}

-----------------------------------------------------------------------------
(* contracts/ethereum/OffchainAggregator.go *)
OffchainAggregatorAnswerUpdated == Event("AnswerUpdated", <<"current", "roundId">>)
OffchainAggregatorBillingAccessControllerSet ==
  Event("BillingAccessControllerSet", <<>>)
OffchainAggregatorBillingSet == Event("BillingSet", <<>>)
OffchainAggregatorConfigSet == Event("ConfigSet", <<>>)
OffchainAggregatorNewRound == Event("NewRound", <<"roundId", "startedBy">>)
OffchainAggregatorNewTransmission ==
  Event("NewTransmission", <<"aggregatorRoundId">>)
OffchainAggregatorOraclePaid == Event("OraclePaid", <<>>)
OffchainAggregatorOwnershipTransferRequested ==
  Event("OwnershipTransferRequested", <<"from", "to">>)
OffchainAggregatorOwnershipTransferred ==
  Event("OwnershipTransferred", <<"from", "to">>)
OffchainAggregatorPayeeshipTransferRequested ==
  Event("PayeeshipTransferRequested", <<"transmitter", "current", "proposed">>)
OffchainAggregatorPayeeshipTransferred ==
  Event("PayeeshipTransferred", <<"transmitter", "previous", "current">>)
OffchainAggregatorRequesterAccessControllerSet ==
  Event("RequesterAccessControllerSet", <<>>)
OffchainAggregatorRoundRequested == Event("RoundRequested", <<"requester">>)
OffchainAggregatorValidatorConfigSet ==
  Event("ValidatorConfigSet", <<"previousValidator", "currentValidator">>)

OffchainAggregatorEvents ==
  {OffchainAggregatorAnswerUpdated,
   OffchainAggregatorBillingAccessControllerSet,
   OffchainAggregatorBillingSet,
   OffchainAggregatorConfigSet,
   OffchainAggregatorNewRound,
   OffchainAggregatorNewTransmission,
   OffchainAggregatorOraclePaid,
   OffchainAggregatorOwnershipTransferRequested,
   OffchainAggregatorOwnershipTransferred,
   OffchainAggregatorPayeeshipTransferRequested,
   OffchainAggregatorPayeeshipTransferred,
   OffchainAggregatorRequesterAccessControllerSet,
   OffchainAggregatorRoundRequested,
   OffchainAggregatorValidatorConfigSet}

-----------------------------------------------------------------------------
(* contracts/ethereum/LinkToken.go *)
LinkTokenApproval == Event("Approval", <<"owner", "spender">>)
LinkTokenTransfer == Event("Transfer", <<"from", "to">>)
LinkTokenTransfer0 == Event("Transfer0", <<"from", "to">>)

LinkTokenEvents ==
  {LinkTokenApproval,
   LinkTokenTransfer,
   LinkTokenTransfer0}

-----------------------------------------------------------------------------
(***************************************************************************)
(* The ABI of the contracts: the indexed arguments in the order of the     *)
(* topics.  The second Transfer of LinkToken is Transfer0 in the binding.  *)
(***************************************************************************)
FluxAggregatorABI ==
  [AnswerUpdated |-> <<"current", "roundId">>,
   AvailableFundsUpdated |-> <<"amount">>,
   NewRound |-> <<"roundId", "startedBy">>,
   OracleAdminUpdateRequested |-> <<"oracle">>,
   OracleAdminUpdated |-> <<"oracle", "newAdmin">>,
   OraclePermissionsUpdated |-> <<"oracle", "whitelisted">>,
   OwnershipTransferRequested |-> <<"from", "to">>,
   OwnershipTransferred |-> <<"from", "to">>,
   RequesterPermissionsSet |-> <<"requester">>,
   RoundDetailsUpdated |-> <<"paymentAmount", "minSubmissionCount", "maxSubmissionCount">>,
   SubmissionReceived |-> <<"submission", "round", "oracle">>,
   ValidatorUpdated |-> <<"previous", "current">>]

OffchainAggregatorABI ==
  [AnswerUpdated |-> <<"current", "roundId">>,
   BillingAccessControllerSet |-> <<>>,
   BillingSet |-> <<>>,
   ConfigSet |-> <<>>,
   NewRound |-> <<"roundId", "startedBy">>,
   NewTransmission |-> <<"aggregatorRoundId">>,
   OraclePaid |-> <<>>,
   OwnershipTransferRequested |-> <<"from", "to">>,
   OwnershipTransferred |-> <<"from", "to">>,
   PayeeshipTransferRequested |-> <<"transmitter", "current", "proposed">>,
   PayeeshipTransferred |-> <<"transmitter", "previous", "current">>,
   RequesterAccessControllerSet |-> <<>>,
   RoundRequested |-> <<"requester">>,
   ValidatorConfigSet |-> <<"previousValidator", "currentValidator">>]

LinkTokenABI ==
  [Transfer |-> <<"from", "to">>,
   Approval |-> <<"owner", "spender">>,
   Transfer0 |-> <<"from", "to">>]

ABI == FluxAggregatorABI @@ OffchainAggregatorABI @@ LinkTokenABI
=============================================================================
