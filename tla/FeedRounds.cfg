SPECIFICATION Spec
CONSTANTS
  alice = alice
  bob = bob
  o1 = o1
  o2 = o2
  o3 = o3
  fund = fund
  None = None
  Accounts = {alice, o1, o2, fund}
  Fund = fund
  ExistentialDeposit = 1
  ValueMax = 8
  RoundIdMax = 5
  MinimumReserve = 0
  OracleCountLimit = 3
  FeedLimit = 1
  GenesisAdmin = alice
  GenesisCreators = {alice}
  GenesisFree <- NoFunds
  MaxRound = 3
  MaxBlock = 5
  Payments = {0}
  Timeouts = {1}
  ValueBounds <- LowAndHigh
  CountBounds <- OneOrTwoOfTwo
  RestartDelays = {0}
  Windows = {1, 2, None}
  MaxDebts = {None}
  OracleLists <- TwoOracles
  DisableLists <- NoLists
  Values = {2, 4, 5}
  RequesterDelays = {0}
  Amounts = {}
  Requesting = {}
  Recipients = {}
  Nominees = {}
SYMMETRY TwoAlike
INVARIANTS
  LatestDataAvailable
  StorageIsContiguous
  UnansweredRoundIsOpen
  AnswerProvenance
  AnswerWithinBounds
PROPERTIES
  TimedOutRoundCanBeClosed
  RoundsMoveForward
  ClosedRoundsAreFrozen
