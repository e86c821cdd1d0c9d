SPECIFICATION Spec
CONSTANTS
  a1 = a1
  a2 = a2
  Accounts = {a1, a2}
  None = None
  ExistentialDeposit = 1
  ValidityPeriod = 1
  IdCount = 4
  GenesisFree <- Funds
  Fees = {1}
  Calls = {"callback", "send_request"}
  Results = {1}
  Malformed = Malformed
  MaxRequests = 2
  MaxRequestBlock = 2
  MaxBlock = 5
INVARIANTS
  ExpiredRequestsAreKilled
  ReserveCoversRequests
PROPERTIES
  RequestsAreStable
