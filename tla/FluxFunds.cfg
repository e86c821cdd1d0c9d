SPECIFICATION DataSpec
CONSTANTS
  Oracles = {o1, o2}
  Admins = {a1, a2}
  Requesters = {}
  None = None
  Payments = {0, 1}
  Amounts = {1}
  Quorums <- MCQuorums
  Timeouts = {FALSE}
  MaxRounds = 2
  MaxLink = 4
CONSTRAINT OneOracle
SYMMETRY Symmetric
INVARIANTS TypeOK FundsBacked AllocatedIsWithdrawable DataNeverOvercounts
PROPERTY OwnerKeepsReserve
CHECK_DEADLOCK FALSE
