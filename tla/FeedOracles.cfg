SPECIFICATION Spec
CONSTANTS
  alice = alice
  bob = bob
  o1 = o1
  o2 = o2
  o3 = o3
  fund = fund
  None = None
  Accounts = {alice, bob, o1, o2, fund}
  Fund = fund
  ExistentialDeposit = 1
  ValueMax = 8
  RoundIdMax = 3
  MinimumReserve = 0
  OracleCountLimit = 2
  FeedLimit = 2
  GenesisAdmin = alice
  GenesisCreators = {alice}
  GenesisFree <- NoFunds
  MaxRound = 2
  MaxBlock = 1
  Payments = {0}
  Timeouts = {0}
  ValueBounds <- UpTo4
  CountBounds <- OneOfOne
  RestartDelays = {0, 1, 2}
  Windows = {None}
  MaxDebts = {None}
  OracleLists <- RivalAdmins
  DisableLists <- Removals
  Values = {1}
  RequesterDelays = {0}
  Amounts = {}
  Requesting = {}
  Recipients = {}
  Nominees = {bob}
CONSTRAINT OneAtATime
INVARIANTS
  OracleCountExact
PROPERTIES
  SomeOracleCanStart
  RolesChangeByConsent
