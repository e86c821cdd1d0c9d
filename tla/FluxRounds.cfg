SPECIFICATION Spec
CONSTANTS
  Oracles = {o1, o2}
  Admins = {a1}
  Requesters = {q}
  None = None
  Payments = {0}
  Amounts = {}
  Quorums <- MCQuorums
  Timeouts = {TRUE}
  MaxRounds = 3
  MaxLink = 0
CONSTRAINTS ThirdRound EarlyHandOver
SYMMETRY Symmetric
INVARIANTS OraclesIndexed EligibleCanSubmit RestartDelayAdmitsSomeone
PROPERTY RoundsMoveForward
CHECK_DEADLOCK FALSE
