----------------------------- MODULE FluxProofs -----------------------------
(***************************************************************************)
(* The funds of FluxAggregator for every set of oracles, admins, payments  *)
(* and amounts: they are backed by LINK, the owner leaves the reserve, and *)
(* GetContractData never counts a payment twice.                           *)
(***************************************************************************)
EXTENDS FluxData, TLAPS

Details == [submissions : Nat, max : Nat, min : Nat, timeout : BOOLEAN, payment : Nat]

\* What the funds depend on: the payments of the rounds and of the next one.
FundsType ==
  /\ details \in [RoundIds -> Details]
  /\ params \in [payment : Nat, min : Nat, max : Nat, delay : Nat, timeout : BOOLEAN]
  /\ recordedFunds \in [available : Int, allocated : Int]
  /\ link \in Int
  /\ oracleCount \in Nat

\* The inductive invariant of the contract.
FundsInv == FundsType /\ FundsBacked

\* A step raises the LINK that is not allocated by at most what arrives.
Bounded ==
  link' - recordedFunds'.allocated <=
    link - recordedFunds.allocated + (IF link' > link THEN link' - link ELSE 0)

\* The constructor establishes the invariant.
LEMMA FundsInit == Init => FundsInv
<1> SUFFICES ASSUME Init PROVE FundsInv
  OBVIOUS
<1>1. FundsType
  <2>1. NoDetails \in Details
    BY DEF NoDetails, Details
  <2>2. details \in [RoundIds -> Details]
    BY <2>1 DEF Init
  <2>3. params \in [payment : Nat, min : Nat, max : Nat, delay : Nat, timeout : BOOLEAN]
    BY FluxAssumption DEF Init
  <2> QED
    BY <2>2, <2>3 DEF Init, FundsType, oracleCount
<1>2. FundsBacked
  BY DEF Init, FundsBacked
<1> QED
  BY <1>1, <1>2 DEF FundsInv

\* initializeNewRound and updateTimedOutRoundInfo keep the details' type.
LEMMA StartedType ==
  ASSUME FundsType, NEW r \in RoundIds
  PROVE  StartedDetails(r) \in [RoundIds -> Details]
<1>1. ClosedDetails(r - 1) \in [RoundIds -> Details]
  BY Zenon DEF FundsType, ClosedDetails, Details, NoDetails
<1>2. [submissions |-> 0, max |-> params.max, min |-> params.min,
       timeout |-> params.timeout, payment |-> params.payment] \in Details
  BY DEF FundsType, Details
<1> QED
  BY <1>1, <1>2 DEF StartedDetails

\* payOracle moves a payment from the available to the allocated funds.
LEMMA PayOracleFunds ==
  ASSUME FundsType, NEW p \in Nat
  PROVE  /\ payOracle(p) \in [available : Int, allocated : Int]
         /\ payOracle(p).available = recordedFunds.available - p
         /\ payOracle(p).allocated = recordedFunds.allocated + p
  BY DEF FundsType, payOracle

\* submit, with the round it may start and the payment of the oracle.
LEMMA SubmitFunds ==
  ASSUME FundsInv, NEW o \in Oracles, NEW r \in RoundIds, submit(o, r)
  PROVE  FundsInv' /\ Bounded /\ KeepsReserve
<1> DEFINE details1 == IF Starts(o, r) THEN StartedDetails(r) ELSE details
           d == [details1[r] EXCEPT !.submissions = @ + 1]
<1>1. FundsType /\ FundsBacked
  BY DEF FundsInv
<1>2. details1 \in [RoundIds -> Details]
  BY <1>1, StartedType DEF FundsType
<1>3. d \in Details
  BY <1>2 DEF Details
<1>4. details' = [details1 EXCEPT ![r] = IF d.submissions < d.max THEN d ELSE NoDetails]
  BY DEF submit
<1>5. NoDetails \in Details
  BY DEF NoDetails, Details
<1>6. recordedFunds' = payOracle(d.payment) /\ UNCHANGED <<params, link, oracleAddresses>>
  BY DEF submit
<1> HIDE DEF d, details1
<1>7. details' \in [RoundIds -> Details]
  BY <1>2, <1>3, <1>4, <1>5
<1>8. d.payment \in Nat
  BY <1>3 DEF Details
<1>9. /\ recordedFunds' \in [available : Int, allocated : Int]
      /\ recordedFunds'.available = recordedFunds.available - d.payment
      /\ recordedFunds'.allocated = recordedFunds.allocated + d.payment
  BY <1>1, <1>6, <1>8, PayOracleFunds
<1>10. FundsType'
  BY <1>1, <1>6, <1>7, <1>9 DEF FundsType, oracleCount
<1>11. FundsBacked'
  BY <1>1, <1>6, <1>8, <1>9 DEF FundsBacked, FundsType
<1>12. Bounded
  BY <1>1, <1>6, <1>8, <1>9 DEF Bounded, FundsType
<1>13. KeepsReserve
  BY <1>1, <1>6 DEF KeepsReserve, FundsType
<1> QED
  BY <1>10, <1>11, <1>12, <1>13 DEF FundsInv

\* requestNewRound pays nobody.
LEMMA RequestFunds ==
  ASSUME FundsInv, NEW who \in Requesters, requestNewRound(who)
  PROVE  FundsInv' /\ Bounded /\ KeepsReserve
<1>1. UNCHANGED <<params, recordedFunds, link, oracleAddresses>>
  BY DEF requestNewRound
<1>2. details' \in [RoundIds -> Details]
  BY Zenon DEF requestNewRound, FundsInv, FundsType, StartedDetails, ClosedDetails, NoDetails,
         Details
<1> QED
  BY <1>1, <1>2 DEF FundsInv, FundsType, oracleCount, FundsBacked, Bounded, KeepsReserve

\* changeOracles checks the reserve for the number of oracles it leaves.
LEMMA ChangeOraclesFunds ==
  ASSUME FundsInv, NEW removed, NEW added, NEW q \in Quorums,
         changeOracles(removed, added, q)
  PROVE  FundsInv' /\ Bounded /\ KeepsReserve
<1>1. /\ UNCHANGED <<details, recordedFunds, link>>
      /\ params' = [params EXCEPT !.min = q.min, !.max = q.max, !.delay = q.delay]
      /\ recordedFunds.available >= params.payment * Len(oracleAddresses') * RESERVE_ROUNDS
  BY DEF changeOracles, roundVars, ValidQuorum
<1> oracleCount' \in Nat
  BY DEF changeOracles, oracleCount, MAX_ORACLE_COUNT
<1>2. FundsType' /\ params'.payment = params.payment
  BY Zenon, <1>1, FluxAssumption DEF FundsInv, FundsType
<1>3. FundsBacked' /\ Bounded
  BY <1>1 DEF FundsInv, FundsType, FundsBacked, Bounded
<1>4. KeepsReserve
  BY <1>1, <1>2 DEF KeepsReserve
<1> QED
  BY <1>2, <1>3, <1>4 DEF FundsInv

\* updateFutureRounds checks the reserve for the new payment.
LEMMA UpdateFutureRoundsFunds ==
  ASSUME FundsInv, NEW payment \in Payments, NEW q \in Quorums, NEW timeout \in Timeouts,
         updateFutureRounds(payment, q, timeout)
  PROVE  FundsInv' /\ Bounded /\ KeepsReserve
<1>1. /\ UNCHANGED <<details, recordedFunds, link, oracleAddresses>>
      /\ params' = [payment |-> payment, min |-> q.min, max |-> q.max, delay |-> q.delay,
                    timeout |-> timeout]
      /\ recordedFunds.available >= payment * Len(oracleAddresses) * RESERVE_ROUNDS
  BY DEF updateFutureRounds, roundVars, ValidQuorum, oracleCount
<1>2. FundsType' /\ params'.payment = payment
  BY <1>1, FluxAssumption DEF FundsInv, FundsType, oracleCount
<1>3. FundsBacked' /\ Bounded
  BY <1>1 DEF FundsInv, FundsType, FundsBacked, Bounded
<1>4. KeepsReserve
  BY <1>1, <1>2 DEF KeepsReserve
<1> QED
  BY <1>2, <1>3, <1>4 DEF FundsInv

\* The steps that move neither funds nor rounds' payments.
LEMMA QuietFunds ==
  ASSUME FundsInv, UNCHANGED <<details, params, recordedFunds, link, oracleAddresses>>
  PROVE  FundsInv' /\ Bounded /\ KeepsReserve
  BY DEF FundsInv, FundsType, oracleCount, FundsBacked, Bounded, KeepsReserve

\* The steps that count the available funds anew, once `amount' has arrived or
\* left; what leaves is beyond the reserve.
LEMMA CountFunds ==
  ASSUME FundsInv, NEW amount \in Int,
         UNCHANGED <<details, params, oracleAddresses>>,
         link' = link + amount, recordedFunds' = Available(recordedFunds, link'),
         amount < 0 => recordedFunds.available + amount >= requiredReserve(params.payment)
  PROVE  FundsInv' /\ Bounded /\ KeepsReserve
<1>1. /\ link \in Int /\ link' \in Int
      /\ recordedFunds \in [available : Int, allocated : Int]
  BY DEF FundsInv, FundsType
<1>2. /\ recordedFunds' \in [available : Int, allocated : Int]
      /\ recordedFunds'.available = link + amount - recordedFunds.allocated
      /\ recordedFunds'.allocated = recordedFunds.allocated
  BY <1>1 DEF Available
<1>3. FundsType' /\ FundsBacked' /\ Bounded
  BY SMTT(30), <1>1, <1>2 DEF FundsInv, FundsType, oracleCount, FundsBacked, Bounded
<1>4. KeepsReserve
  <2>1. recordedFunds.available + recordedFunds.allocated <= link
    BY DEF FundsInv, FundsBacked
  <2>2. recordedFunds'.available >= recordedFunds.available + amount
    BY <1>1, <1>2, <2>1
  <2> DEFINE reserve == params.payment * Len(oracleAddresses) * RESERVE_ROUNDS
  <2>3. requiredReserve(params.payment) = reserve
    BY DEF requiredReserve, oracleCount
  <2>4. CASE amount < 0
    <3>1. recordedFunds.available + amount >= reserve
      BY <2>3, <2>4
    <3>2. reserve \in Int
      BY DEF FundsInv, FundsType, oracleCount, RESERVE_ROUNDS
    <3> HIDE DEF reserve
    <3>3. recordedFunds'.available >= reserve
      BY <2>2, <3>1, <3>2, <1>1, <1>2
    <3> QED
      BY <3>3 DEF KeepsReserve, reserve
  <2>5. CASE ~ (amount < 0)
    BY <2>5, <1>1 DEF KeepsReserve
  <2> QED
    BY <2>4, <2>5
<1> QED
  BY <1>3, <1>4 DEF FundsInv

\* LINK that arrives without onTokenTransfer is not counted yet.
LEMMA TransferFunds ==
  ASSUME FundsInv, NEW amount \in Amounts, transfer(amount)
  PROVE  FundsInv' /\ Bounded /\ KeepsReserve
<1>1. /\ UNCHANGED <<details, params, recordedFunds, oracleAddresses>>
      /\ link' = link + amount /\ amount \in Nat
  BY FluxAssumption DEF transfer, roundVars
<1> QED
  BY <1>1 DEF FundsInv, FundsType, oracleCount, FundsBacked, Bounded, KeepsReserve

\* withdrawPayment takes the same from the LINK and from the allocated funds.
LEMMA WithdrawPaymentFunds ==
  ASSUME FundsInv, NEW who, NEW o \in Oracles, NEW amount \in Amounts,
         withdrawPayment(who, o, amount)
  PROVE  FundsInv' /\ Bounded /\ KeepsReserve
<1>1. /\ UNCHANGED <<details, params, oracleAddresses>>
      /\ link' = link - amount /\ amount \in Nat
      /\ recordedFunds' = [recordedFunds EXCEPT !.allocated = @ - amount]
  BY FluxAssumption DEF withdrawPayment, roundVars
<1>2. /\ recordedFunds' \in [available : Int, allocated : Int]
      /\ recordedFunds'.available = recordedFunds.available
      /\ recordedFunds'.allocated = recordedFunds.allocated - amount
  BY <1>1 DEF FundsInv, FundsType
<1>3. FundsType' /\ FundsBacked' /\ Bounded
  BY SMTT(30), <1>1, <1>2 DEF FundsInv, FundsType, oracleCount, FundsBacked, Bounded
<1>4. KeepsReserve
  BY <1>1, <1>2 DEF FundsInv, FundsType, KeepsReserve
<1> QED
  BY <1>3, <1>4 DEF FundsInv

\* onTokenTransfer counts the available funds anew,
LEMMA OnTokenTransferFunds ==
  ASSUME FundsInv, NEW amount \in Amounts, onTokenTransfer(amount)
  PROVE  FundsInv' /\ Bounded /\ KeepsReserve
<1>1. amount \in Int /\ ~ (amount < 0)
  BY FluxAssumption
<1> QED
  BY <1>1, CountFunds DEF onTokenTransfer, roundVars

\* and so does updateAvailableFunds.
LEMMA UpdateAvailableFunds ==
  ASSUME FundsInv, updateAvailableFunds
  PROVE  FundsInv' /\ Bounded /\ KeepsReserve
<1>1. link' = link + 0 /\ link' = link
  BY DEF updateAvailableFunds, FundsInv, FundsType
<1>2. recordedFunds' = Available(recordedFunds, link')
  BY <1>1 DEF updateAvailableFunds
<1> QED
  BY <1>1, <1>2, CountFunds DEF updateAvailableFunds, roundVars

\* withdrawFunds leaves the reserve, and counts the available funds anew.
LEMMA WithdrawFunds ==
  ASSUME FundsInv, NEW amount \in Amounts, withdrawFunds(amount)
  PROVE  FundsInv' /\ Bounded /\ KeepsReserve
<1> DEFINE out == 0 - amount
<1>1. amount \in Nat /\ out \in Int
  BY FluxAssumption
<1>2. requiredReserve(params.payment) \in Int
  BY DEF FundsInv, FundsType, requiredReserve, RESERVE_ROUNDS
<1>3. recordedFunds.available + out >= requiredReserve(params.payment)
  <2>1. recordedFunds.available - requiredReserve(params.payment) >= amount
    BY DEF withdrawFunds
  <2> QED
    BY <1>1, <1>2, <2>1 DEF FundsInv, FundsType
<1>4. link' = link + out
  BY <1>1 DEF withdrawFunds, FundsInv, FundsType
<1>5. recordedFunds' = Available(recordedFunds, link')
      /\ UNCHANGED <<details, params, oracleAddresses>>
  BY DEF withdrawFunds, roundVars
<1> HIDE DEF out
<1> QED
  BY <1>1, <1>3, <1>4, <1>5, CountFunds

-----------------------------------------------------------------------------
\* The invariant is inductive, and every step is bounded and keeps the reserve.
LEMMA FundsNext == FundsInv /\ [Next]_vars => FundsInv' /\ Bounded /\ [KeepsReserve]_vars
<1> SUFFICES ASSUME FundsInv, [Next]_vars PROVE FundsInv' /\ Bounded /\ KeepsReserve
  OBVIOUS
<1>1. ASSUME NEW removed, NEW added, NEW q \in Quorums, changeOracles(removed, added, q)
      PROVE  FundsInv' /\ Bounded /\ KeepsReserve
  BY <1>1, ChangeOraclesFunds
<1>2. ASSUME NEW payment \in Payments, NEW q \in Quorums, NEW timeout \in Timeouts,
             updateFutureRounds(payment, q, timeout)
      PROVE  FundsInv' /\ Bounded /\ KeepsReserve
  BY <1>2, UpdateFutureRoundsFunds
<1>3. ASSUME NEW who, NEW authorized, NEW delay,
             setRequesterPermissions(who, authorized, delay)
      PROVE  FundsInv' /\ Bounded /\ KeepsReserve
  BY <1>3, QuietFunds DEF setRequesterPermissions, roundVars
<1>4. ASSUME NEW amount \in Amounts, withdrawFunds(amount)
      PROVE  FundsInv' /\ Bounded /\ KeepsReserve
  BY <1>4, WithdrawFunds
<1>5. ASSUME NEW o \in Oracles, NEW r \in RoundIds, submit(o, r)
      PROVE  FundsInv' /\ Bounded /\ KeepsReserve
  BY <1>5, SubmitFunds
<1>6. ASSUME NEW who, NEW o \in Oracles, NEW admin, transferAdmin(who, o, admin)
      PROVE  FundsInv' /\ Bounded /\ KeepsReserve
  BY <1>6, QuietFunds DEF transferAdmin, roundVars
<1>7. ASSUME NEW who, NEW o \in Oracles, acceptAdmin(who, o)
      PROVE  FundsInv' /\ Bounded /\ KeepsReserve
  BY <1>7, QuietFunds DEF acceptAdmin, roundVars
<1>8. ASSUME NEW who, NEW o \in Oracles, NEW amount \in Amounts,
             withdrawPayment(who, o, amount)
      PROVE  FundsInv' /\ Bounded /\ KeepsReserve
  BY <1>8, WithdrawPaymentFunds
<1>9. ASSUME NEW who \in Requesters, requestNewRound(who)
      PROVE  FundsInv' /\ Bounded /\ KeepsReserve
  BY <1>9, RequestFunds
<1>10. ASSUME NEW r \in RoundIds, TimePasses(r)
       PROVE  FundsInv' /\ Bounded /\ KeepsReserve
  BY <1>10, QuietFunds DEF TimePasses
<1>11. CASE updateAvailableFunds
  BY SMTT(30), <1>11, UpdateAvailableFunds
<1>12. ASSUME NEW amount \in Amounts, transfer(amount)
       PROVE  FundsInv' /\ Bounded /\ KeepsReserve
  BY <1>12, TransferFunds
<1>13. ASSUME NEW amount \in Amounts, onTokenTransfer(amount)
       PROVE  FundsInv' /\ Bounded /\ KeepsReserve
  BY <1>13, OnTokenTransferFunds
<1>14. CASE UNCHANGED vars
  BY <1>14, QuietFunds DEF vars, roundVars
<1>15. CASE OwnerStep
  BY SMTT(30), <1>1, <1>2, <1>3, <1>4, <1>15 DEF OwnerStep
<1>16. CASE OracleStep
  BY <1>5, <1>6, <1>7, <1>8, <1>16 DEF OracleStep
<1> QED
  BY SMTT(30), <1>9, <1>10, <1>11, <1>12, <1>13, <1>14, <1>15, <1>16 DEF Next

\* The inductive invariant of the funds (payOracle, withdrawPayment,
\* withdrawFunds, updateAvailableFunds) holds in every state.
THEOREM FundsInvariance == Spec => []FundsInv
<1>1. FundsInv /\ [Next]_vars => FundsInv'
  BY FundsNext
<1> QED
  BY <1>1, FundsInit, PTL DEF Spec

\* What the contract owes and what it says is available never exceed its LINK.
THEOREM FundsAreBacked == Spec => []FundsBacked
<1>1. FundsInv => FundsBacked
  BY DEF FundsInv
<1> QED
  BY <1>1, FundsInvariance, PTL

\* The owner's withdrawals and changes leave the reserve of two rounds.
THEOREM ReserveIsKept == Spec => OwnerKeepsReserve
<1>1. FundsInv /\ [Next]_vars => [KeepsReserve]_vars
  BY FundsNext
<1> QED
  BY <1>1, FundsInvariance, PTL DEF Spec, OwnerKeepsReserve

-----------------------------------------------------------------------------
(***************************************************************************)
(* GetContractData.  Between its first two calls the allocated funds it has *)
(* read may be out of date; what was read and the LINK that is not         *)
(* allocated now are bounded by the ceiling together.                      *)
(***************************************************************************)
DataInv ==
  /\ ceiling \in Int
  /\ data.pc = "available" =>
       /\ data.allocated \in Int
       /\ data.allocated + (link - recordedFunds.allocated) <= ceiling
  /\ data.pc \in {"round", "oracles", "returned"} =>
       /\ data.allocated \in Int /\ data.available \in Int
       /\ data.allocated + data.available <= ceiling
  /\ data.pc \in {"idle", "available", "round", "oracles", "returned"}

\* A step of the contract raises the ceiling as much as the free LINK.
LEMMA DataNextContract ==
  ASSUME FundsInv, DataInv, Next, ceiling' = Raised, UNCHANGED data
  PROVE  FundsInv' /\ DataInv'
<1>1. FundsInv' /\ Bounded
  BY FundsNext
<1>2. /\ link \in Int /\ link' \in Int
      /\ recordedFunds.allocated \in Int /\ recordedFunds'.allocated \in Int
  BY <1>1 DEF FundsInv, FundsType
<1>3. ceiling' \in Int /\ ceiling <= ceiling'
  <2>1. ceiling \in Int
    BY DEF DataInv
  <2>2. ceiling' = ceiling \/ (link' > link /\ ceiling' = ceiling + (link' - link))
    BY Zenon DEF Raised
  <2> QED
    BY <1>2, <2>1, <2>2
<1>4. CASE data.pc = "available"
  <2>1. ceiling' = ceiling + (IF link' > link THEN link' - link ELSE 0)
    BY <1>2, <1>4 DEF Raised, DataInv
  <2> QED
    BY <1>1, <1>2, <1>3, <1>4, <2>1 DEF DataInv, Bounded
<1>5. CASE data.pc # "available"
  BY <1>1, <1>3, <1>5 DEF DataInv
<1> QED
  BY <1>4, <1>5

\* A call of GetContractData.
LEMMA DataNextCall ==
  ASSUME FundsInv, DataInv, GetContractData, UNCHANGED vars
  PROVE  FundsInv' /\ DataInv'
<1>1. UNCHANGED <<details, params, recordedFunds, link, oracleAddresses>>
  BY DEF vars, roundVars
<1>2. FundsInv'
  BY <1>1 DEF FundsInv, FundsType, FundsBacked, oracleCount
<1>3. /\ link \in Int /\ recordedFunds.allocated \in Int /\ recordedFunds.available \in Int
      /\ recordedFunds.allocated + recordedFunds.available <= link
  BY DEF FundsInv, FundsType, FundsBacked
<1>4. CASE /\ data.pc \in {"idle", "returned"}
           /\ data' = [pc |-> "available", allocated |-> AllocatedFunds]
           /\ ceiling' = link
  <2>1. data'.allocated + (link' - recordedFunds'.allocated) <= ceiling'
    BY <1>1, <1>3, <1>4 DEF AllocatedFunds
  <2> QED
    BY <1>2, <1>3, <1>4, <2>1 DEF DataInv, AllocatedFunds
<1>5. CASE /\ data.pc = "available"
           /\ data' = [pc |-> "round", allocated |-> data.allocated,
                       available |-> AvailableFunds]
           /\ UNCHANGED ceiling
  <2>1. data.allocated \in Int /\ ceiling \in Int
        /\ data.allocated + (link - recordedFunds.allocated) <= ceiling
    BY <1>5 DEF DataInv
  <2>2. data.allocated + recordedFunds.available <= ceiling
    BY <1>3, <2>1
  <2> QED
    BY <1>2, <1>3, <1>5, <2>1, <2>2 DEF DataInv, AvailableFunds
<1>6. CASE /\ data.pc = "round"
           /\ HasData(latestRoundId)
           /\ data' = [pc |-> "oracles", allocated |-> data.allocated,
                       available |-> data.available, latestRound |-> LatestRoundData]
           /\ UNCHANGED ceiling
  BY <1>2, <1>6 DEF DataInv
<1>7. CASE /\ data.pc = "oracles"
           /\ data' = [pc |-> "returned", allocated |-> data.allocated,
                       available |-> data.available, latestRound |-> data.latestRound,
                       oracles |-> GetOracles]
           /\ UNCHANGED ceiling
  BY <1>2, <1>7 DEF DataInv
<1>8. CASE CallFails
  BY <1>2, <1>8 DEF CallFails, NoData, DataInv
<1> QED
  BY SMTT(30), <1>4, <1>5, <1>6, <1>7, <1>8 DEF GetContractData

\* What GetContractData returns is no snapshot, but the funds in it are never
\* more than the LINK the contract had.
THEOREM DataIsNotOvercounted == DataSpec => []DataNeverOvercounts
<1>1. DataInit => FundsInv /\ DataInv
  BY FundsInit DEF DataInit, DataInv, NoData
<1>2. FundsInv /\ DataInv /\ [DataNext]_dataVars => FundsInv' /\ DataInv'
  <2> SUFFICES ASSUME FundsInv, DataInv, [DataNext]_dataVars PROVE FundsInv' /\ DataInv'
    OBVIOUS
  <2>1. CASE UNCHANGED dataVars
    BY <2>1 DEF dataVars, vars, roundVars, FundsInv, FundsType, FundsBacked,
                oracleCount, DataInv
  <2>2. CASE Next /\ ceiling' = Raised /\ UNCHANGED data
    BY <2>2, DataNextContract
  <2>3. CASE GetContractData /\ UNCHANGED vars
    BY <2>3, DataNextCall
  <2> QED
    BY <2>1, <2>2, <2>3 DEF DataNext
<1>3. DataInv => DataNeverOvercounts
  BY DEF DataInv, DataNeverOvercounts
<1> QED
  BY <1>1, <1>2, <1>3, PTL DEF DataSpec
=============================================================================
