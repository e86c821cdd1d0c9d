--------------------------- MODULE FluxAggregator ---------------------------
(***************************************************************************)
(* The contract FluxAggregator (v0.6/src/FluxAggregator.sol), which the Go *)
(* bindings of the same name call.  A transaction is atomic, so each       *)
(* method is one action; a `require' that fails reverts and is a guard.    *)
(*                                                                         *)
(* Abstractions: submissions are counted, their values and the median are  *)
(* left out; a timestamp is kept as whether it is set, and the clock as    *)
(* the set `late' of rounds whose timeout has passed; the validator, which *)
(* cannot make a submission fail, and the ownership are left out.          *)
(***************************************************************************)
EXTENDS Integers, Sequences, FiniteSets, FiniteSetsExt, SequencesExt

CONSTANTS
  Oracles, Admins, Requesters,   \* addresses
  None,                          \* the zero address
  Payments,                      \* amounts of paymentAmount
  Amounts,                       \* amounts of LINK that are moved
  Quorums,                       \* [min, max, delay] the owner may choose
  Timeouts,                      \* whether rounds have a timeout
  MaxRounds,                     \* bound: rounds
  MaxLink                        \* bound: LINK on the contract

ASSUME FluxAssumption ==
  /\ Payments \subseteq Nat
  /\ Amounts \subseteq Nat
  /\ Quorums \subseteq [min : Nat, max : Nat, delay : Nat]
  /\ Timeouts \subseteq BOOLEAN
  /\ MaxRounds \in Nat /\ MaxLink \in Nat

VARIABLES
  rounds,           \* [started, updated, answeredInRound]
  details,          \* [submissions, max, min, timeout, payment]
  late,             \* rounds that started longer ago than their timeout
  reportingRoundId, latestRoundId,
  oracles,          \* OracleStatus
  oracleAddresses,
  requesters,
  params,           \* paymentAmount, min-, maxSubmissionCount, restartDelay, timeout
  recordedFunds,
  link              \* linkToken.balanceOf(this)

roundVars == <<rounds, details, late, reportingRoundId, latestRoundId>>
vars == <<roundVars, oracles, oracleAddresses, requesters, params, recordedFunds, link>>

RoundIds == 0 .. MaxRounds
ROUND_MAX == MaxRounds + 2   \* no round gets there
RESERVE_ROUNDS == 2
MAX_ORACLE_COUNT == 77

NoDetails == [submissions |-> 0, max |-> 0, min |-> 0, timeout |-> FALSE, payment |-> 0]

-----------------------------------------------------------------------------
(* Views *)

timedOut(r) == rounds[r].started /\ details[r].timeout /\ r \in late

supersedable(r) == rounds[r].updated \/ timedOut(r)

acceptingSubmissions(r) == details[r].max # 0

newRound(r) == r = reportingRoundId + 1

oracleEnabled(o) == oracles[o].endingRound = ROUND_MAX

oracleCount == Len(oracleAddresses)

requiredReserve(payment) == payment * oracleCount * RESERVE_ROUNDS

delayed(o, r) ==
  r > oracles[o].lastStartedRound + params.delay \/ oracles[o].lastStartedRound = 0

\* Mutant: the round before stays open when the current one is answered.
previousAndCurrentUnanswered_previous(r, current) == r + 1 = current

previousAndCurrentUnanswered(r, current) == r + 1 = current /\ ~ rounds[current].updated

\* validateOracleRound returns no error.
validateOracleRound(o, r) ==
  /\ oracles[o].startingRound # 0
  /\ oracles[o].startingRound <= r
  /\ oracles[o].endingRound >= r
  /\ oracles[o].lastReportedRound < r
  /\ \/ r = reportingRoundId
     \/ r = reportingRoundId + 1
     \/ previousAndCurrentUnanswered(r, reportingRoundId)
  /\ r = 1 \/ supersedable(r - 1)

\* oracleRoundState(_oracle, 0): the round that is suggested, whether the oracle
\* is eligible to submit to it, and what it pays.
SuggestedRound(o) ==
  IF /\ supersedable(reportingRoundId)
     /\ \/ oracles[o].lastReportedRound = reportingRoundId
        \/ ~ acceptingSubmissions(reportingRoundId)
  THEN reportingRoundId + 1
  ELSE reportingRoundId

\* Mutant: whether the round still accepts submissions is not asked.
oracleRoundStateSuggestRound_closed(o) ==
  LET r == SuggestedRound(o)
      next == newRound(r)
  IN [roundId |-> r,
      eligible |-> (next => delayed(o, r)) /\ validateOracleRound(o, r),
      payment |-> IF next THEN params.payment ELSE details[r].payment]

oracleRoundStateSuggestRound(o) ==
  LET r == SuggestedRound(o)
      next == newRound(r)
  IN [roundId |-> r,
      eligible |-> /\ IF next THEN delayed(o, r) ELSE acceptingSubmissions(r)
                   /\ validateOracleRound(o, r),
      payment |-> IF next THEN params.payment ELSE details[r].payment]

\* getRoundData has data.
HasData(r) == rounds[r].answeredInRound > 0

-----------------------------------------------------------------------------
(***************************************************************************)
(* Rounds                                                                  *)
(***************************************************************************)
\* updateTimedOutRoundInfo of the round before the one that starts.
ClosedRounds(r) ==
  IF timedOut(r)
  THEN [rounds EXCEPT ![r].answeredInRound = rounds[r - 1].answeredInRound,
                      ![r].updated = TRUE]
  ELSE rounds

ClosedDetails(r) == IF timedOut(r) THEN [details EXCEPT ![r] = NoDetails] ELSE details

\* initializeNewRound
StartedRounds(r) == [ClosedRounds(r - 1) EXCEPT ![r].started = TRUE]

StartedDetails(r) ==
  [ClosedDetails(r - 1) EXCEPT
     ![r] = [submissions |-> 0, max |-> params.max, min |-> params.min,
             timeout |-> params.timeout, payment |-> params.payment]]

\* Whether the submission starts the round, in oracleInitializeNewRound.
Starts(o, r) == newRound(r) /\ delayed(o, r)

\* submit goes through.
CanSubmit(o, r) ==
  /\ validateOracleRound(o, r)
  /\ LET d == IF Starts(o, r) THEN StartedDetails(r)[r] ELSE details[r]
     IN d.max # 0 /\ recordedFunds.available >= d.payment

\* updateRoundAnswer has enough submissions.
Answers(d) == d.submissions >= d.min

\* Mutant: payOracle does not take the payment from the available funds.
payOracle_allocates(payment) == [recordedFunds EXCEPT !.allocated = @ + payment]

payOracle(payment) ==
  [available |-> recordedFunds.available - payment,
   allocated |-> recordedFunds.allocated + payment]

\* Mutant: the payment replaces what was withdrawable.
Credit_overwrite(o, payment) == payment

Credit(o, payment) == oracles[o].withdrawable + payment

\* submit: the round is started if it is new, the submission is recorded, the
\* answer updated, the oracle paid and the details of a full round deleted.
submit(o, r) ==
  /\ r \in 1 .. MaxRounds
  /\ CanSubmit(o, r)
  /\ LET starts  == Starts(o, r)
         rounds1 == IF starts THEN StartedRounds(r) ELSE rounds
         details1 == IF starts THEN StartedDetails(r) ELSE details
         d == [details1[r] EXCEPT !.submissions = @ + 1]
     IN /\ reportingRoundId' = IF starts THEN r ELSE reportingRoundId
        /\ rounds' = IF Answers(d)
                     THEN [rounds1 EXCEPT ![r].updated = TRUE, ![r].answeredInRound = r]
                     ELSE rounds1
        /\ latestRoundId' = IF Answers(d) THEN r ELSE latestRoundId
        /\ details' = [details1 EXCEPT ![r] = IF d.submissions < d.max THEN d ELSE NoDetails]
        /\ recordedFunds' = payOracle(d.payment)
        /\ oracles' = [oracles EXCEPT
                         ![o].lastReportedRound = r,
                         ![o].lastStartedRound = IF starts THEN r ELSE @,
                         ![o].withdrawable = Credit(o, d.payment)]
  /\ UNCHANGED <<late, oracleAddresses, requesters, params, link>>

requestNewRound(who) ==
  LET r == reportingRoundId + 1
  IN /\ requesters[who].authorized
     /\ supersedable(reportingRoundId)
     /\ r <= MaxRounds
     /\ \/ r > requesters[who].lastStartedRound + requesters[who].delay
        \/ requesters[who].lastStartedRound = 0
     /\ reportingRoundId' = r
     /\ rounds' = StartedRounds(r)
     /\ details' = StartedDetails(r)
     /\ requesters' = [requesters EXCEPT ![who].lastStartedRound = r]
     /\ UNCHANGED <<late, latestRoundId, oracles, oracleAddresses, params, recordedFunds,
                    link>>

\* Time passes until the timeout of round r is over.
TimePasses(r) ==
  /\ rounds[r].started /\ details[r].timeout /\ r \notin late
  /\ late' = late \cup {r}
  /\ UNCHANGED <<rounds, details, reportingRoundId, latestRoundId, oracles,
                 oracleAddresses, requesters, params, recordedFunds, link>>

-----------------------------------------------------------------------------
(***************************************************************************)
(* Oracles.  changeOracles works on a list of removals, then on a list of  *)
(* additions; [oracles, addresses, ok] is what it has done so far.         *)
(***************************************************************************)
\* Mutant: the place of the removed oracle is not handed to the last one.
removeOracle_unindexed(st, o) ==
  LET n == Len(st.addresses)
  IN IF st.oracles[o].endingRound # ROUND_MAX
     THEN [st EXCEPT !.ok = FALSE]
     ELSE [st EXCEPT
             !.oracles = [@ EXCEPT ![o].endingRound = reportingRoundId + 1, ![o].index = 0],
             !.addresses = SubSeq([@ EXCEPT ![st.oracles[o].index + 1] = st.addresses[n]],
                                 1, n - 1)]

removeOracle(st, o) ==
  LET n == Len(st.addresses)
      tail == st.addresses[n]
      index == st.oracles[o].index
      moved == [st.oracles EXCEPT ![tail].index = index]
  IN IF st.oracles[o].endingRound # ROUND_MAX
     THEN [st EXCEPT !.ok = FALSE]
     ELSE [oracles |-> [moved EXCEPT ![o].endingRound = reportingRoundId + 1, ![o].index = 0],
           addresses |-> SubSeq([st.addresses EXCEPT ![index + 1] = tail], 1, n - 1),
           ok |-> st.ok]

getStartingRound(status) ==
  IF reportingRoundId # 0 /\ reportingRoundId = status.endingRound
  THEN reportingRoundId ELSE reportingRoundId + 1

\* A pair of an oracle and its admin is added; the owner cannot overwrite an admin.
addOracle(st, pair) ==
  LET o == pair[1]
  IN IF \/ st.oracles[o].endingRound = ROUND_MAX
        \/ st.oracles[o].admin \notin {None, pair[2]}
     THEN [st EXCEPT !.ok = FALSE]
     ELSE [oracles |-> [st.oracles EXCEPT ![o].startingRound = getStartingRound(st.oracles[o]),
                                          ![o].endingRound = ROUND_MAX,
                                          ![o].index = Len(st.addresses),
                                          ![o].admin = pair[2]],
           addresses |-> Append(st.addresses, o),
           ok |-> st.ok]

\* Mutant: the delay may reach the number of oracles.
ValidQuorum_delay(q, count, payment) ==
  /\ q.max >= q.min
  /\ count >= q.max
  /\ count = 0 \/ count >= q.delay
  /\ recordedFunds.available >= payment * count * RESERVE_ROUNDS
  /\ count > 0 => q.min > 0

\* updateFutureRounds accepts the settings for that many oracles.
ValidQuorum(q, count, payment) ==
  /\ q.max >= q.min
  /\ count >= q.max
  /\ count = 0 \/ count > q.delay
  /\ recordedFunds.available >= payment * count * RESERVE_ROUNDS
  /\ count > 0 => q.min > 0

changeOracles(removed, added, q) ==
  LET st == FoldLeft(addOracle,
                     FoldLeft(removeOracle, [oracles |-> oracles,
                                             addresses |-> oracleAddresses,
                                             ok |-> TRUE], removed), added)
  IN /\ st.ok
     /\ Len(st.addresses) \in 0 .. MAX_ORACLE_COUNT
     /\ ValidQuorum(q, Len(st.addresses), params.payment)
     /\ oracles' = st.oracles
     /\ oracleAddresses' = st.addresses
     /\ params' = [params EXCEPT !.min = q.min, !.max = q.max, !.delay = q.delay]
     /\ UNCHANGED <<roundVars, requesters, recordedFunds, link>>

updateFutureRounds(payment, q, timeout) ==
  /\ ValidQuorum(q, oracleCount, payment)
  /\ params' = [payment |-> payment, min |-> q.min, max |-> q.max, delay |-> q.delay,
                timeout |-> timeout]
  /\ UNCHANGED <<roundVars, oracles, oracleAddresses, requesters, recordedFunds, link>>

setRequesterPermissions(who, authorized, delay) ==
  /\ requesters[who].authorized # authorized
  /\ requesters' = [requesters EXCEPT
       ![who] = IF authorized
                THEN [@ EXCEPT !.authorized = TRUE, !.delay = delay]
                ELSE [authorized |-> FALSE, delay |-> 0, lastStartedRound |-> 0]]
  /\ UNCHANGED <<roundVars, oracles, oracleAddresses, params, recordedFunds, link>>

transferAdmin(who, o, admin) ==
  /\ oracles[o].admin = who
  /\ oracles' = [oracles EXCEPT ![o].pendingAdmin = admin]
  /\ UNCHANGED <<roundVars, oracleAddresses, requesters, params, recordedFunds, link>>

acceptAdmin(who, o) ==
  /\ oracles[o].pendingAdmin = who
  /\ oracles' = [oracles EXCEPT ![o].pendingAdmin = None, ![o].admin = who]
  /\ UNCHANGED <<roundVars, oracleAddresses, requesters, params, recordedFunds, link>>

-----------------------------------------------------------------------------
(***************************************************************************)
(* Funds.  LINK arrives by transferAndCall, which calls onTokenTransfer,   *)
(* or by transfer, which leaves recordedFunds alone.                       *)
(***************************************************************************)
\* recordedFunds after updateAvailableFunds, when the contract has that balance.
Available(funds, balance) == [funds EXCEPT !.available = balance - funds.allocated]

updateAvailableFunds ==
  /\ recordedFunds' = Available(recordedFunds, link)
  /\ UNCHANGED <<roundVars, oracles, oracleAddresses, requesters, params, link>>

transfer(amount) ==
  /\ link + amount <= MaxLink
  /\ link' = link + amount
  /\ UNCHANGED <<roundVars, oracles, oracleAddresses, requesters, params, recordedFunds>>

onTokenTransfer(amount) ==
  /\ link + amount <= MaxLink
  /\ link' = link + amount
  /\ recordedFunds' = Available(recordedFunds, link')
  /\ UNCHANGED <<roundVars, oracles, oracleAddresses, requesters, params>>

\* Mutant: what is withdrawable is not looked at.
withdrawPayment_unchecked(who, o, amount) ==
  /\ oracles[o].admin = who
  /\ oracles' = [oracles EXCEPT ![o].withdrawable = @ - amount]
  /\ recordedFunds' = [recordedFunds EXCEPT !.allocated = @ - amount]
  /\ link' = link - amount
  /\ UNCHANGED <<roundVars, oracleAddresses, requesters, params>>

withdrawPayment(who, o, amount) ==
  /\ oracles[o].admin = who
  /\ oracles[o].withdrawable >= amount
  /\ oracles' = [oracles EXCEPT ![o].withdrawable = @ - amount]
  /\ recordedFunds' = [recordedFunds EXCEPT !.allocated = @ - amount]
  /\ link' = link - amount
  /\ UNCHANGED <<roundVars, oracleAddresses, requesters, params>>

\* Mutant: the reserve is one round.
withdrawFunds_one(amount) ==
  /\ recordedFunds.available - params.payment * oracleCount >= amount
  /\ link' = link - amount
  /\ recordedFunds' = Available(recordedFunds, link')
  /\ UNCHANGED <<roundVars, oracles, oracleAddresses, requesters, params>>

withdrawFunds(amount) ==
  /\ recordedFunds.available - requiredReserve(params.payment) >= amount
  /\ link' = link - amount
  /\ recordedFunds' = Available(recordedFunds, link')
  /\ UNCHANGED <<roundVars, oracles, oracleAddresses, requesters, params>>

-----------------------------------------------------------------------------
\* The state the constructor leaves: round 0 counts as updated.
Init ==
  /\ rounds = [r \in RoundIds |-> [started |-> FALSE, updated |-> r = 0,
                                   answeredInRound |-> 0]]
  /\ details = [r \in RoundIds |-> NoDetails]
  /\ late = {}
  /\ reportingRoundId = 0 /\ latestRoundId = 0
  /\ oracles = [o \in Oracles |-> [withdrawable |-> 0, startingRound |-> 0,
                                   endingRound |-> 0, lastReportedRound |-> 0,
                                   lastStartedRound |-> 0, index |-> 0,
                                   admin |-> None, pendingAdmin |-> None]]
  /\ oracleAddresses = <<>>
  /\ requesters = [who \in Requesters |-> [authorized |-> FALSE, delay |-> 0,
                                           lastStartedRound |-> 0]]
  /\ \E payment \in Payments, timeout \in Timeouts :
       params = [payment |-> payment, min |-> 0, max |-> 0, delay |-> 0, timeout |-> timeout]
  /\ recordedFunds = [available |-> 0, allocated |-> 0]
  /\ link = 0

\* The lists changeOracles is called with: up to two entries.
Lists(S) == {<<>>} \cup {<<x>> : x \in S} \cup {l \in S \X S : l[1] # l[2]}

OwnerStep ==
  \/ \E removed \in Lists(Oracles), added \in Lists(Oracles \X Admins), q \in Quorums :
       changeOracles(removed, added, q)
  \/ \E payment \in Payments, q \in Quorums, timeout \in Timeouts :
       updateFutureRounds(payment, q, timeout)
  \/ \E who \in Requesters, authorized \in BOOLEAN, delay \in {0, 1} :
       setRequesterPermissions(who, authorized, delay)
  \/ \E amount \in Amounts : withdrawFunds(amount)

OracleStep ==
  \/ \E o \in Oracles, r \in RoundIds : submit(o, r)
  \/ \E o \in Oracles, who \in Admins :
       \/ \E admin \in Admins : transferAdmin(who, o, admin)
       \/ acceptAdmin(who, o)
       \/ \E amount \in Amounts : withdrawPayment(who, o, amount)

Next ==
  \/ OwnerStep
  \/ OracleStep
  \/ \E who \in Requesters : requestNewRound(who)
  \/ \E r \in RoundIds : TimePasses(r)
  \/ updateAvailableFunds
  \/ \E amount \in Amounts : transfer(amount) \/ onTokenTransfer(amount)

Spec == Init /\ [][Next]_vars

-----------------------------------------------------------------------------
(* Properties *)

\* Type invariant of the rounds, the oracles and the recorded funds.
TypeOK ==
  /\ rounds \in [RoundIds -> [started : BOOLEAN, updated : BOOLEAN,
                              answeredInRound : RoundIds]]
  /\ details \in [RoundIds -> [submissions : Nat, max : Nat, min : Nat,
                               timeout : BOOLEAN, payment : Nat]]
  /\ late \subseteq RoundIds
  /\ reportingRoundId \in RoundIds /\ latestRoundId \in RoundIds
  /\ oracles \in [Oracles -> [withdrawable : Nat, startingRound : Nat, endingRound : Nat,
                              lastReportedRound : RoundIds, lastStartedRound : RoundIds,
                              index : Nat, admin : Admins \cup {None},
                              pendingAdmin : Admins \cup {None}]]
  /\ oracleAddresses \in Seq(Oracles)
  /\ requesters \in [Requesters -> [authorized : BOOLEAN, delay : Nat,
                                    lastStartedRound : RoundIds]]
  /\ params \in [payment : Nat, min : Nat, max : Nat, delay : Nat, timeout : BOOLEAN]
  /\ recordedFunds \in [available : Nat, allocated : Nat]
  /\ link \in Nat

\* The LINK of the contract covers what it owes and what it says is available
\* (payOracle, withdrawPayment, withdrawFunds and updateAvailableFunds together).
FundsBacked == recordedFunds.available + recordedFunds.allocated <= link

\* The allocated funds are what the oracles may withdraw, whichever oracles are
\* removed, added again or handed to another admin in between.
AllocatedIsWithdrawable ==
  recordedFunds.allocated = MapThenSumSet(LAMBDA o : oracles[o].withdrawable, Oracles)

\* The step of which OwnerKeepsReserve speaks.
KeepsReserve ==
  ( \/ link' < link /\ recordedFunds'.allocated = recordedFunds.allocated
    \/ params' # params
    \/ oracleAddresses' # oracleAddresses )
  => recordedFunds'.available >= params'.payment * Len(oracleAddresses') * RESERVE_ROUNDS

\* A step that takes out LINK which is not an oracle's, or changes the oracles or
\* the payment, leaves the reserve of two rounds (withdrawFunds, changeOracles,
\* updateFutureRounds), although a withdrawal counts the funds anew.
OwnerKeepsReserve == [][KeepsReserve]_vars

\* oracleAddresses lists the enabled oracles, each once and at its index (the
\* last oracle takes the place of a removed one).
OraclesIndexed ==
  /\ \A o \in Oracles : oracleEnabled(o) =>
       /\ oracles[o].index < oracleCount
       /\ oracleAddresses[oracles[o].index + 1] = o
  /\ \A i \in 1 .. oracleCount : /\ oracleEnabled(oracleAddresses[i])
                                 /\ oracles[oracleAddresses[i]].index = i - 1

\* An oracle that oracleRoundState tells it is eligible, an enabled or a removed
\* one, can submit, as long as the funds cover the payment that goes with it.
\* The one exception: when all oracles were removed, one of them may be told that
\* it is eligible for the next round, which takes no submissions (the maximum is 0).
EligibleCanSubmit ==
  \A o \in Oracles :
    LET s == oracleRoundStateSuggestRound(o)
    IN s.roundId \in RoundIds /\ s.eligible /\ recordedFunds.available >= s.payment
       => CanSubmit(o, s.roundId) \/ (oracleCount = 0 /\ newRound(s.roundId))

\* When the current round can be superseded, some enabled oracle can start the
\* next one: the restart delay never locks all of them out, also after oracles
\* were removed (changeOracles goes through updateFutureRounds).
RestartDelayAdmitsSomeone ==
  /\ oracleCount > 0
  /\ reportingRoundId < MaxRounds
  /\ supersedable(reportingRoundId)
  /\ recordedFunds.available >= params.payment
  => \E o \in Oracles : /\ oracleEnabled(o)
                        /\ Starts(o, reportingRoundId + 1)
                        /\ CanSubmit(o, reportingRoundId + 1)

\* The latest answer never moves to an earlier round, rounds start one at a time,
\* and rounds before the last two never change (late submissions go only to the
\* round before one that is unanswered).
RoundsMoveForward ==
  [][/\ latestRoundId' >= latestRoundId
     /\ reportingRoundId' \in {reportingRoundId, reportingRoundId + 1}
     /\ \A r \in RoundIds : r + 1 < reportingRoundId =>
          rounds'[r] = rounds[r] /\ details'[r].submissions <= details[r].submissions]_vars
=============================================================================
