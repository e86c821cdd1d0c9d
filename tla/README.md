# Verification of chainlink-polkadot

TLA+ models of the pallets, of the FluxAggregator contract and of the Go
integration framework of this repository, model-checked with TLC on small
instances and in part proved with TLAPS for all values of the constants. The
models are written from the source; every definition that models code is
mapped to its lines in `PROJECT.json` (`map`).

## 1. The system

| Part | Source | Module |
|---|---|---|
| price feed pallet | `pallet-chainlink-feed/src/lib.rs` | `Feed`, `ChainlinkFeed` |
| its utilities (median) | `pallet-chainlink-feed/src/utils.rs` | `Median` |
| job-based oracle pallet | `pallet-chainlink/src/lib.rs` | `Chainlink` |
| example consumer pallet | `substrate-node-example/runtime/src/example.rs` | `Chainlink` |
| pallet_balances (external) | as called by the two pallets | `Balances` |
| FluxAggregator contract | `fm-demo/go-scripts/contracts/ethereum/v0.6/src/FluxAggregator.sol` | `FluxAggregator` |
| Go Ethereum client, wallets | `fm-demo/go-scripts/client/ethereum.go`, `blockchain.go` | `EthereumClient`, `Contracts` |
| Go contract wrappers | `fm-demo/go-scripts/contracts/ethereum_contracts.go` | `Contracts`, `FluxData` |
| Go bindings: events | `fm-demo/go-scripts/contracts/ethereum/*.go` | `EventLogs`, `Events`, `LogStream` |
| Go bindings: calls | the same | `FluxData`, `Contracts` (the ones the wrappers use) |
| Go node client and main program | `fm-demo/go-scripts/client/chainlink.go`, `main.go` | `ChainlinkNode` |
| the rest | see section 5 | not modelled |

**The feed pallet.** A *feed* collects numbers from its oracles in *rounds*.
State: the pallet admin and feed creators, and per feed a configuration
(`Feeds`), its rounds (`Rounds`), the details of rounds that still take
submissions (`Details`), the status of its oracles (`OracleStatuses`) and its
requesters (`Requesters`); across feeds the oracles' earnings and admins
(`Oracles`), and one *fund* account whose reserve backs the earnings.
Operations: `create_feed`, the two-step hand-overs of a feed, of an oracle's
administration and of the pallet, `set_pruning_window`, `submit`,
`change_oracles`, `update_future_rounds`, `set_requester`, `remove_requester`,
`request_new_round`, `withdraw_payment`, `withdraw_funds`, `reduce_debt`,
`set_feed_creator`, `remove_feed_creator`.
What is hard here: a round stays open for late submissions after it is
answered and after its successor starts; a round can time out, which is noticed
only when the next one starts and then copies the answer of its predecessor;
answers and a change of the window prune rounds; who may start a round depends
on a delay per oracle and per requester; payments are reserved if the fund
suffices and become a debt of the feed otherwise; `withdraw_payment` can fail
after its first write.
What should hold: the latest data is always there, rounds only move forward and
closed ones are immutable, a round is started once and counts an oracle once,
a timed-out round does not block the next, somebody can always start a round,
an answer lies between the submissions, reserve and debt match what is owed, and
roles change only by consent. Not all of it does in every configuration: section 3
says where.

**The job-based pallet.** Accounts register as operators; anyone requests work
from an operator (`initiate_request`), which reserves a fee; the operator's
`callback` settles the fee and dispatches the result to the requesting pallet;
`on_finalize` kills requests older than `ValidityPeriod` blocks.
What is hard: answers race with the expiry, may come twice, may not decode, may
belong to a callback that takes no result (an error after a write), and an
operator may unregister or be its own customer meanwhile.
What should hold: a request is stable while it is valid and gone soon after,
the customer's reserve covers what the customer has to pay, an answer is paid.

The two pallets share only pallet_balances and the runtime, and no state of one
depends on the other.

**FluxAggregator.** The contract the feed pallet was ported from: rounds,
oracles, requesters, and recorded funds that are available or allocated to
oracles. Hard here, besides what is hard in the pallet: LINK that arrives
without a call, the removal of an oracle by moving the last one into its place,
a reserve for two rounds that several operations must leave, and
`oracleRoundState`, which decides on conditions of its own whether `submit`
would accept an oracle.

**The Go framework.** The *client* reads a nonce, signs and sends a transaction
and waits until a header shows that it is no longer pending, or a timer fires.
The *wrappers* deploy, fund and configure contracts with it, keep the address of
the LINK token in a shared configuration, and read a FluxAggregator in four
separate calls. The *bindings* read events through an iterator (`Filter`) or a
subscription (`Watch`), each with goroutines, channels and a way to cancel. The
*node client* creates, reads and deletes objects of a Chainlink node over HTTP
with a session cookie, and `main.go` creates a job spec per file with it.
Hard here: several processes share a wallet (the test packages do), a node that
answers late or never, transactions that are replaced, reverted or included
after the caller gave up, select statements whose cases race, sessions that
expire, requests whose answer gets lost.

The pallets and the Ethereum side share no state.

## 2. The modules

* `Balances`: reserve, unreserve, transfer with `KeepAlive` and
  repatriate_reserved as operators on a function from accounts to free and
  reserved balances. External: modelled from how the pallets use it.
* `Median`: `sort_unstable` by the k-th smallest element, `median` with the
  saturating addition of the value type.
* `Feed`: one feed as a record `[config, rounds, details]` and every method of
  the proxy `Feed<T>` on it. A check is a predicate, a mutator maps a feed to
  the next one, `can_m` says when the fallible mutator `m` returns Ok.
  `PruneAll` is the closed form of the loop in `set_pruning_window`.
* `ChainlinkFeed`: the storage items as variables of the same names and one
  action per extrinsic. An action is a whole extrinsic, the write-back by the
  proxy's `Drop` included. An extrinsic that returns an error before any write,
  or inside `with_transaction_result`, changes nothing and is a stuttering step.
  `withdraw_payment` has a disjunct for the failure after the unreserve.
  `NextBlock` advances the block number, `FundPallet` is a transfer to the fund.
* `Chainlink`: pallet-chainlink and the example pallet's callback. `events` is
  the set of deposited events, which the properties use as history.
  `on_finalize` also begins the next block.
* `EthereumClient`: the node's transactions (`txs`; the position is the hash)
  and, per caller, the call it is in (`op`): `TransactionOpts` reads the nonce,
  `SendTransaction` sends, `SubscribeNewHead`, `ReceiveHeader` and `Timeout` are
  `WaitForTransaction`. The node is external: it may fail any call, lose the
  answer to one, replace a pending transaction by another with its nonce.
* `Contracts`: extends it with the wrappers and with what their transactions do
  to the contracts (`code`). A wrapper is an action that starts a call of the
  client, and `Resume` what it does with the result (`fund` goes on to LINK, a
  deployment keeps the instance, `DeployLinkTokenContract` the address). Of each
  contract there are the constructor, the conditions under which a call of the
  wrappers reverts and its effect (`CanTransfer` and `transfer`, ...); that a
  transaction runs one of them is the business of the EVM, which is external.
* `LogStream`: what reading events promises. `EventLogs`: the iterator and the
  subscription abigen generates, and package bind (external) at the other end of
  the channel. `Events`: the 29 events of the three bindings, each with the name
  and the order of topic rules that its own functions pass, beside the
  arguments as the contract's ABI declares them.
* `FluxAggregator`: one action per transaction of the contract; a revert is a
  disabled action. Submissions are counted, their values and the median are
  left out. Time is the set `late` of rounds whose timeout has passed.
* `FluxData`: `GetContractData` of the Go wrapper, one action per call of the
  binding, composed with the contract. `ceiling` is a history variable: the LINK
  there was when the calls began, and what arrived since.
* `ChainlinkNode`: the node (external: objects and sessions), a client per
  process, and `main.go`. A method is the request it sends and the status it
  expects; `doRaw` and `SetSessionCookie` are split where the answer arrives.
  The node numbers what it makes, except bridges: they have the names their
  callers choose, which may be taken, and come back after a deletion. A client may
  ask for any number or name, also for one that nothing has yet. `seen` is a
  history variable: the number of objects made when the node answered.
* `MC...`: the sets the configurations choose from, state constraints and
  symmetry.
* `BalancesProofs`, `FeedProofs` (the operators of one feed),
  `FeedStorageProofs` and `FeedRoundProofs` (one lemma per extrinsic),
  `ChainlinkFeedProofs` (the theorems on feeds), `ChainlinkProofs`,
  `EventLogsProofs`, `FluxProofs`.

**About the map of the bindings.** abigen emits the same some 150 lines for every
event: iterator type, `Next`, `Error`, `Close`, `Filter`, `Watch`, `Parse`. They
are modelled once, in `EventLogs`, from the lines of `AnswerUpdated`; a
definition of `Events` stands for the lines of its own event, which differ from
those in types, the name and the rules, and `Events.cfg` runs every event through
`EventLogs`. Most of the Go lines that the map covers are these.

Left out as data no control depends on: decimals, description,
`latest_submission`, spec index, data version and request data, weights. Left
out as without effect on the pallet: `OnAnswerHandler` (the runtime uses the
unit handler, the test mock only records that it was called). `Value` starts at 0
since the pallet's value type is unsigned wherever it is instantiated.
Definitions under a comment "Mutant" are
variants of the definition after them with a planted mistake: `PROJECT.json`
(`mutants`) pairs each property with one that TLC finds to violate it.

## 3. What TLC checks

Passing runs:

| Run | Instance | Properties |
|---|---|---|
| `feed_rounds` | 2 oracles, up to 3 rounds in 5 blocks, time-out of 1 block, windows 1, 2 and unlimited, 1 or 2 of 2 submissions, values below and above half of the maximum | `LatestDataAvailable`, `StorageIsContiguous`, `UnansweredRoundIsOpen`, `AnswerProvenance`, `AnswerWithinBounds`, `TimedOutRoundCanBeClosed`, `RoundsMoveForward`, `ClosedRoundsAreFrozen` |
| `feed_starts` | 3 oracles of which 2 answer, 2 requesters, restart delays 1 and 2, 4 blocks | `OneSubmissionPerOracle`, `OneStarterPerRound` |
| `feed_oracles` | 2 feeds, 2 oracles claimed by 2 admins, disabled and added again, in lists with repetitions; restart delays 0 to 2 (2 is refused); all three roles handed over | `OracleCountExact`, `SomeOracleCanStart`, `RolesChangeByConsent` |
| `feed_ledger` | 2 feeds with debt limits 2 and none, one oracle, a fund of 2, payments of 1 and 2, amounts 0 to 2 | `BackingWithinOwed`, `PaymentsAreBacked`, `OnlyEarnedOrSpareFundsLeave` |
| `requests` | 2 accounts as customers and operators, 2 requests, validity of 1 block, 5 blocks | `ExpiredRequestsAreKilled`, `ReserveCoversRequests`, `RequestsAreStable` |
| `contracts` | 2 processes, 2 wallets, 3 transactions, 2 confirmations, at most 2 unread headers; five pairs of programs | `NilMeansIncluded`, `NoNonceGap`, `OnlyOthersReplace`, `StoreReadsLastSet`, `CallsReturn` |
| `events` | each of the 29 events, by iterator and subscription, a rule on none or one argument, up to 3 logs that match, do not, cannot be unpacked or are of another event, a channel of 2 | `ImplementsStream`, `IterationEnds`, `UnsubscribeReturns` |
| `flux_rounds` | 2 oracles, a requester, 3 rounds that may time out, quorums 1 of 1 and 1 of 2, restart delays 0 to 2 (2 is refused), removals down to no oracle | `OraclesIndexed`, `EligibleCanSubmit`, `RestartDelayAdmitsSomeone`, `RoundsMoveForward` |
| `flux_funds` | 2 oracles, 2 admins, 2 rounds, payments 0 and 1, up to 4 LINK, `GetContractData` meanwhile | `TypeOK`, `FundsBacked`, `AllocatedIsWithdrawable`, `DataNeverOvercounts`, `OwnerKeepsReserve` |
| `node` | `main.go` on 2 files beside a client that makes up to 3 calls of any method; or two clients that use bridges of one name; 2 sessions | `AnswersAreTrue`, `OneEffectPerCall`, `EveryFileIsTried` |

Three rounds are enough for every relation the pallet has between rounds: it
looks at the reporting round, its predecessor, its successor and the oldest one,
and a window of 2 prunes within three rounds. Five blocks let two consecutive
rounds time out. Two feeds are enough for the shared fund, and oracles are
interchangeable (symmetry is used where every order of them is among the
inputs). Named bounds: `MaxRound`, `MaxBlock`, `FeedLimit`, `MaxRequests`,
`MaxRequestBlock`; `OneAtATime` explores a second feed and a restart delay in
`feed_oracles` each without the other and without changes of the pallet's own
roles, and the second feed only before the first round. `RoundIdMax` and `ValueMax` stand for the largest numbers of
the Rust types.

Bounds of the Ethereum side. Three transactions let one be replaced, one follow it
and one be included late. A channel of 2 and 3 logs make the producer block.
Three rounds are those that FluxAggregator relates (the reporting round, the one
before and the next); `ThirdRound` explores what follows the start of the third
only without an authorized requester. `EarlyHandOver` explores a change of
admin only before the first round. `OneOracle` explores the calls of
`GetContractData`, and a change of admin, with one oracle and not both at once,
and cuts off behaviours whose ceiling is out of reach of the amounts; everything
else is explored with two oracles. The proofs in section 4 have none of these
restrictions. `MCScenarios` splits `node` in two: calls of any method run beside
`main.go`, and two clients compete only where they can meet, in the names of
bridges. Named bounds: `MaxTxs`, `MaxHeads`, `MaxLogs`, `MaxRounds`,
`MaxLink`, `MaxCalls`, `MaxSessions`. The runs `events`, `flux_rounds`,
`flux_funds` and `node` do not check for deadlock: a stream that ended, a contract
at its bounds and a program that is done stop.

Runs that show a disagreement between the code and what is written about it
(details and quotations in `PROJECT.json`, `findings`):

* `feed_overwritten`: an answered round that waits for more submissions times
  out and takes over the default data of round 0, although `first_valid_round`
  is set.
* `fee_unpaid`: an answer does not pay the operator, since the fee is
  repatriated from the operator's own reserve: the customer's fee stays reserved.
  (Requests of an operator to itself are left out of the property: there the
  two reserves are one.)

**Exceptions that properties name.** Each of these cases happens in the run, and
TLC finds a counterexample when the exception is taken out of the property.

* `TimedOutRoundCanBeClosed` is about windows of at least 2. With `pruning_window`
  1 an answer prunes its predecessor; when the answered round then times out,
  closing it fails and no round can start (`lib.rs:1590`, against the comment
  at 1554).
* `SomeOracleCanStart` is about steps that set the restart delay, and states in
  which the delay is below the number of oracles. After a removal by
  `change_oracles` it may not be, and then no oracle may be able to start a round
  (`lib.rs:1472`, against the comment at 1503). FluxAggregator has no such gap:
  its `changeOracles` goes through the checks of `updateFutureRounds`
  (`RestartDelayAdmitsSomeone`, checked with removals).
* `AnswerWithinBounds` has half of the maximum of the value type as a lower bound
  besides the one of the feed: when the sum of the two middle values saturates,
  the median is below both (`utils.rs:31`).
* `ReserveCoversRequests` leaves open what is reserved for a request once it is
  answered (it should be nothing, and is the fee: `fee_unpaid`), and the
  reserve of an account that was an operator, which its own answers touch.
* `CallsReturn`: `WaitForTransaction` arms its timer anew at every header
  (`ethereum.go:221`), so a call never returns when headers keep coming faster
  than the timeout and the transaction stays in the pool.
* `EligibleCanSubmit`: when all oracles are removed in a round, an oracle that was
  enabled for the next one is told by `oracleRoundState` that it is eligible
  (`FluxAggregator.sol:811`), and `submit` reverts since the round has a maximum
  of 0 submissions (`FluxAggregator.sol:893`).
* `EveryFileIsTried` is about runs in which no request hangs: the HTTP clients have
  no timeout (`main.go:27`).

**Further observations, without a property.**

* A failed transfer in `withdraw_payment` leaves a payment owed and neither
  reserved nor booked as debt (`lib.rs:1032`, against the pallet's README,
  line 21). `BackingWithinOwed` states the half that holds.
* A feed without `max_debt` accumulates debt (`lib.rs:844`, against 93).
* `prune_oldest` sets `first_valid_round` to a round that may have timed out with
  default data; one round is pruned per answer, so rounds skipped by time-outs
  stay in storage longer than the window says; `reduce_debt` is documented as
  limited to the pallet admin and is open to every signed account; `KillRequest`
  is deposited for answered requests, too, since an answer does not remove its
  request.
* In FluxAggregator a round that was answered and is not full can time out, too. It
  then takes `answeredInRound` from the round before (`FluxAggregator.sol:765`),
  which is 0 for the first round, while `latestRoundId` stays: `latestRoundData`
  reverts again after it had returned data. `RoundsMoveForward` is about
  the round counters and says nothing about the data. This is the contract's form
  of what `feed_overwritten` shows for the pallet.
* On the Go side: `isTxConfirmed` does not look at the status of the receipt, so
  a wrapper reports success for a reverted transaction (`NilMeansIncluded` says
  included and no more); headers that were announced before the transaction was
  included count as confirmations when they are received after it; a failed
  login has already replaced the cookies (`chainlink.go:199`), so that calls are
  refused until a login succeeds; `main.go` prints success also after an error.

**Fairness.** `ChainlinkFeed` states none: nobody has to call an extrinsic, and
its properties are safety properties. `SomeOracleCanStart` and
`TimedOutRoundCanBeClosed` state what progress needs of the state. `Chainlink`
has none either.
`Contracts`: a caller that is in a call goes on (its goroutine is scheduled, and
the node answers an RPC call or fails it), and its timer fires when no header is
there. Nothing is assumed about blocks: they may stop, since a development node
mines only when there is a transaction, and they may leave a transaction in the
pool for ever.
`EventLogs`: the goroutines are scheduled, and the user of an iterator goes on
calling `Next` (the loop `for it.Next()`). The user of a subscription may stop
reading; `UnsubscribeReturns` holds nevertheless.
`ChainlinkNode`: main goes on between its requests. That a request ends, with an
answer or a broken connection, is not assumed but the premise of
`EveryFileIsTried`; none needs to succeed. `FluxAggregator` has no fairness.

## 4. What is proved

For all values of the constants under the named `ASSUME`s of the modules; of the
pallets with any number of rounds below `RoundIdMax` and of requests below
`IdCount`:

* `ChainlinkFeedProofs`: `TypeCorrectness`, `LatestDataIsAvailable`,
  `StorageStaysContiguous`, `UnansweredRoundStaysOpen`, `RoundsOnlyMoveForward`,
  `ClosedRoundsStayFrozen`.
* `ChainlinkProofs`: `TypeCorrectness`, `RequestsExpire`, `RequestsStayStable`.
* `EventLogsProofs`: `NothingIsLost`, `Refinement` (`EventLogs` implements
  `LogStream`).
* `FluxProofs`: `FundsAreBacked`, `ReserveIsKept`, `DataIsNotOvercounted`.

**The feed argument.** None of these properties is inductive alone: that the
latest round has data after a pruning depends on what is stored, what is stored
depends on the order of the three round counters, and that closing a timed-out
round yields data depends on its predecessor being stored and having data,
which in turn needs that only the reporting round lacks it. `WellFormed` in
`Feed` collects these facts about one feed; `IInv` in `ChainlinkFeed` says that
every feed is well-formed and that nothing is stored for a feed not yet
created. `FeedProofs` shows that each mutator keeps `WellFormed` and only
advances (`Advances`, `Frozen`): pruning (`PruneToKeeps`, `PruneOldestKeeps`,
`PruneAllKeeps`), starting a round with the closing of its predecessor
(`InitializeKeeps`), answering (`UpdateAnswerKeeps`), recording a submission
(`RecordKeeps`, `SubmitKeeps`). That the median is a value needs that a k-th
smallest element exists (`KthSmallestExists`). `FeedStorageProofs` and
`FeedRoundProofs` lift this to the pallet, one lemma per extrinsic, and
`StepKeeps` in `ChainlinkFeedProofs` joins them. Assumptions:
the named `ASSUME`s of `Feed` and `ChainlinkFeed`, notably `MaxRound <
RoundIdMax` (no saturation of the round counter, which takes 2^32 rounds).

**The request argument.** `IInv` in `Chainlink`: identifiers at and above the
next one are unused, running requests are young enough and not killed, and a
requested identifier is running or killed. One lemma per extrinsic keeps it.
Assumption: `MaxRequests < IdCount` (identifiers do not wrap).

**The event argument.** That a stream completes only with all logs delivered is not
inductive: it needs that nothing is lost between the node and the user
(`NothingLost`: delivered, held, in the channel and still to be sent are together
what was found), that what was found is what the user asked for, and `Drained`:
an iterator in done mode has a producer that is gone, and a producer that was not
cancelled left nothing behind. `IInv` in `EventLogsProofs` is their conjunction.
The refinement maps `source` to the logs that match by the arguments the contract
declares, `out` to `got`, and `status` to the way the stream stands; each step is
a step of `LogStream` or a stutter. That an event passes its
rules in the order in which its contract declares the arguments is assumed there
(`EventAssumption`); TLC evaluates the assumption for all 29 events of `Events`.

**The funds argument.** `FundsInv`: the types of what the funds depend on, and
`FundsBacked`. Every operation moves funds between available and allocated,
takes LINK out together with one of them, or counts what is available from the
balance anew. `ReserveIsKept` follows per step: each operation that lowers the
reserve or raises what it must be ends in a check. For `GetContractData`, `Bounded`
says that a step raises the LINK that is not allocated by no more than what
arrives; since allocated is read first, a payment between the two reads lowers
the second and is not counted twice.

**Only model-checked.** Of the pallets: properties over sums and cardinalities (the
ledger, `ReserveCoversRequests`, `OracleCountExact`, `OneSubmissionPerOracle`),
`AnswerProvenance`, `AnswerWithinBounds`, `OneStarterPerRound`,
`SomeOracleCanStart`, `TimedOutRoundCanBeClosed`, `RolesChangeByConsent`. Of
FluxAggregator: `AllocatedIsWithdrawable` (a sum), its type invariant and the
properties of its rounds and oracles. Everything about `Contracts` and
`ChainlinkNode`. Liveness (`CallsReturn`, `IterationEnds`,
`UnsubscribeReturns`, `EveryFileIsTried`) is outside the prover.

## 5. Not modelled

* `OffchainAggregator.sol` and its billing: the repository has no producer of
  reports or signatures, and the Go code only deploys and configures it
  (`Contracts` has the owner check and the order of `setPayees` and `setConfig`).
* `VRF.sol`: elliptic-curve arithmetic without state.
* `Median.sol`: quickselect without state; no control depends on its result.
* FluxAggregator's `setValidator`, the call of the validator and the transfer of
  its ownership: no modelled state depends on them.
* LINK allowances: nothing uses one.
* Getters of the bindings and wrappers that make one call and change nothing, raw
  and session types, `config.go` (reads a file once), the choice of a network by
  name. A negative wallet index would pass the check in `blockchain.go:184`; no
  caller passes one.
* `OnAnswerHandler`s that change the feed they are called for: the runtime and the
  test mock have none.
* The mock operator and the set-up scripts: their calls are among those that
  `Chainlink` and `ChainlinkFeed` allow any account at any time.
* Weights, benchmarks, migrations, the template pallet, runtime, node and front end.

## 6. Plan

1. Proofs: `RolesChangeByConsent`, `TimedOutRoundCanBeClosed` for windows of at
   least 2, `AnswerProvenance`; `OraclesIndexed` of FluxAggregator;
   `NilMeansIncluded` and `OnlyOthersReplace` of `Contracts`.
2. An abstract feed (answered rounds that only grow) that `ChainlinkFeed` and
   `FluxAggregator` both implement.
3. `OffchainAggregator.sol`: report epochs, configuration changes, billing.
