SPECIFICATION Spec
CONSTANTS
  alice = alice
  bob = bob
  o1 = o1
  o2 = o2
  o3 = o3
  fund = fund
  None = None
  Accounts = {alice, o1, fund}
  Fund = fund
  ExistentialDeposit = 1
  ValueMax = 8
  RoundIdMax = 4
  MinimumReserve = 1
  OracleCountLimit = 3
  FeedLimit = 2
  GenesisAdmin = alice
  GenesisCreators = {alice}
  GenesisFree <- SmallFund
  MaxRound = 2
  MaxBlock = 1
  Payments = {1, 2}
  Timeouts = {0}
  ValueBounds <- UpTo4
  CountBounds <- OneOfOne
  RestartDelays = {0}
  Windows = {None}
  MaxDebts = {2, None}
  OracleLists <- OneOracle
  DisableLists <- NoLists
  Values = {1}
  RequesterDelays = {0}
  Amounts = {0, 1, 2}
  Requesting = {}
  Recipients = {alice, fund}
  Nominees = {}
INVARIANTS
  BackingWithinOwed
PROPERTIES
  PaymentsAreBacked
  OnlyEarnedOrSpareFundsLeave
