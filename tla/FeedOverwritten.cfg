SPECIFICATION Spec
CONSTANTS
  alice = alice
  bob = bob
  o1 = o1
  o2 = o2
  o3 = o3
  fund = fund
  None = None
  Accounts = {alice, o1, o2, o3, fund}
  Fund = fund
  ExistentialDeposit = 1
  ValueMax = 8
  RoundIdMax = 5
  MinimumReserve = 0
  OracleCountLimit = 3
  FeedLimit = 1
  GenesisAdmin = alice
  GenesisCreators = {alice}
  GenesisFree <- NoFunds
  MaxRound = 3
  MaxBlock = 4
  Payments = {0}
  Timeouts = {1}
  ValueBounds <- UpTo4
  CountBounds <- TwoOfThree
  RestartDelays = {0}
  Windows = {None}
  MaxDebts = {None}
  OracleLists <- ThreeOracles
  DisableLists <- NoLists
  Values = {1}
  RequesterDelays = {0}
  Amounts = {}
  Requesting = {}
  Recipients = {}
  Nominees = {}
SYMMETRY ThreeAlike
INVARIANTS
  FirstValidRoundMeansUsefulData
