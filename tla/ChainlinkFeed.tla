---------------------------- MODULE ChainlinkFeed ----------------------------
(***************************************************************************)
(* pallet-chainlink-feed: the storage of the pallet and its extrinsics.    *)
(*                                                                         *)
(* A variable is a storage item and has its name; block_number is          *)
(* frame_system's, balances is pallet_balances'.  An action is a whole     *)
(* extrinsic, executed alone in its block.  An extrinsic that fails before *)
(* it writes, or inside with_transaction_result, leaves the state as it    *)
(* was: it is a stuttering step.  The one extrinsic that can fail after a  *)
(* write, withdraw_payment, says so in a disjunct of its own.              *)
(***************************************************************************)
EXTENDS Integers, Sequences, FiniteSets, FiniteSetsExt, Feed, Balances

CONSTANTS
  Fund,               \* the account derived from PalletId
  MinimumReserve, OracleCountLimit, FeedLimit,
  GenesisAdmin, GenesisCreators, GenesisFree,
  MaxRound,           \* bound: no round after this one is started
  MaxBlock            \* bound: no block after this one is built

\* The arguments that the extrinsics are called with.
CONSTANTS
  Payments, Timeouts, ValueBounds, CountBounds, RestartDelays, Windows,
  MaxDebts, OracleLists, DisableLists, Values, RequesterDelays, Amounts,
  Requesting,         \* accounts named in set_requester and remove_requester
  Recipients,         \* accounts named as recipients of payments and funds
  Nominees            \* accounts named in a hand-over of a role

ASSUME ChainlinkFeedAssumption ==
  /\ Fund \in Accounts
  /\ GenesisAdmin \in Accounts
  /\ GenesisCreators \subseteq Accounts
  /\ GenesisFree \in [Accounts -> Nat]
  /\ MinimumReserve \in Nat
  /\ OracleCountLimit \in Nat
  /\ FeedLimit \in Nat
  /\ MaxRound \in RoundId /\ MaxRound < RoundIdMax
  /\ MaxBlock \in Nat

ASSUME InputAssumption ==
  /\ Payments \subseteq Nat
  /\ Timeouts \subseteq Nat
  /\ ValueBounds \subseteq Value \X Value
  /\ CountBounds \subseteq Nat \X Nat
  /\ RestartDelays \subseteq RoundId
  /\ Windows \subseteq Option(RoundId)
  /\ MaxDebts \subseteq Option(Nat)
  /\ OracleLists \subseteq Seq(Accounts \X Accounts)
  /\ DisableLists \subseteq Seq(Accounts)
  /\ Values \subseteq Value
  /\ RequesterDelays \subseteq RoundId
  /\ Amounts \subseteq Nat
  /\ Requesting \subseteq Accounts
  /\ Recipients \subseteq Accounts
  /\ Nominees \subseteq Accounts

FeedId == 0 .. FeedLimit - 1

OracleMeta == [withdrawable : Nat, admin : Accounts, pending_admin : Option(Accounts)]

Requester == [delay : RoundId, last_started_round : Option(RoundId)]

ASSUME NoneStoredAssumption ==
  None \notin OracleMeta /\ None \notin Requester

VARIABLES
  block_number, balances,
  PalletAdmin, PendingPalletAdmin, FeedCounter, FeedCreators,
  Feeds, Rounds, Details, OracleStatuses, Requesters, Oracles

adminVars == <<PalletAdmin, PendingPalletAdmin, FeedCreators>>
feedVars == <<Feeds, Rounds, Details>>
vars == <<block_number, balances, adminVars, FeedCounter, feedVars,
          OracleStatuses, Requesters, Oracles>>

\* The fund is an account without a key: it signs nothing.
Signers == Accounts \ {Fund}

\* Loading a feed proxy from storage, and the write of its drop.
FeedAt(f) == [config |-> Feeds[f], rounds |-> Rounds[f], details |-> Details[f]]

SyncToStorage(f, fs) ==
  /\ Feeds' = [Feeds EXCEPT ![f] = fs.config]
  /\ Rounds' = [Rounds EXCEPT ![f] = fs.rounds]
  /\ Details' = [Details EXCEPT ![f] = fs.details]

OwnsFeed(who, f) == Feeds[f] # None /\ Feeds[f].owner = who

-----------------------------------------------------------------------------
Init ==
  /\ block_number = 1
  /\ balances = [a \in Accounts |-> [free |-> GenesisFree[a], reserved |-> 0]]
  /\ PalletAdmin = GenesisAdmin
  /\ PendingPalletAdmin = None
  /\ FeedCounter = 0
  /\ FeedCreators = GenesisCreators
  /\ Feeds = [f \in FeedId |-> None]
  /\ Rounds = [f \in FeedId |-> [r \in RoundId |-> None]]
  /\ Details = [f \in FeedId |-> [r \in RoundId |-> None]]
  /\ OracleStatuses = [f \in FeedId |-> [a \in Accounts |-> None]]
  /\ Requesters = [f \in FeedId |-> [a \in Accounts |-> None]]
  /\ Oracles = [a \in Accounts |-> None]

NextBlock ==
  /\ block_number < MaxBlock
  /\ block_number' = block_number + 1
  /\ UNCHANGED <<balances, adminVars, FeedCounter, feedVars, OracleStatuses,
                 Requesters, Oracles>>

\* A transfer_keep_alive call of pallet_balances that tops up the fund.
FundPallet(who, amount) ==
  /\ CanTransfer(balances, who, Fund, amount)
  /\ balances' = Transfer(balances, who, Fund, amount)
  /\ UNCHANGED <<block_number, adminVars, FeedCounter, feedVars, OracleStatuses,
                 Requesters, Oracles>>

-----------------------------------------------------------------------------
(***************************************************************************)
(* Feed operations                                                         *)
(***************************************************************************)
\* The entries that add_oracles makes for oracles not tracked yet.
TrackOracles(metas, list) ==
  [a \in Accounts |->
     IF metas[a] = None /\ \E i \in DOMAIN list : list[i][1] = a
     THEN [withdrawable  |-> 0,
           admin         |-> list[CHOOSE i \in DOMAIN list : list[i][1] = a][2],
           pending_admin |-> None]
     ELSE metas[a]]

create_feed(who, payment, timeout, values, min, delay, list, window, max_debt) ==
  LET f == FeedCounter
      bounds == <<min, Len(list)>>
      config == [owner |-> who, pending_owner |-> None,
                 submission_value_bounds |-> values,
                 submission_count_bounds |-> bounds,
                 payment |-> payment, timeout |-> timeout, restart_delay |-> delay,
                 reporting_round |-> 0, latest_round |-> 0,
                 first_valid_round |-> None, oracle_count |-> Len(list),
                 pruning_window |-> IF window = None THEN RoundIdMax ELSE window,
                 next_round_to_prune |-> 1, debt |-> 0, max_debt |-> max_debt]
      round0 == [started_at |-> block_number, answer |-> 0,
                 updated_at |-> block_number, answered_in_round |-> 0]
  IN /\ who \in FeedCreators
     /\ window # 0
     /\ f < FeedLimit
     /\ can_add_oracles(0, OracleCountLimit, OracleStatuses[f], Oracles, list)
     /\ can_update_future_rounds(Len(list), bounds, delay)
     /\ FeedCounter' = f + 1
     /\ SyncToStorage(f, [config  |-> config,
                          rounds  |-> [Rounds[f] EXCEPT ![0] = round0],
                          details |-> Details[f]])
     /\ OracleStatuses' = [OracleStatuses EXCEPT ![f] = add_oracles(0, @, list)]
     /\ Oracles' = TrackOracles(Oracles, list)
     /\ UNCHANGED <<block_number, balances, adminVars, Requesters>>

transfer_ownership(who, f, new_owner) ==
  /\ OwnsFeed(who, f)
  /\ Feeds' = [Feeds EXCEPT ![f].pending_owner = new_owner]
  /\ UNCHANGED <<block_number, balances, adminVars, FeedCounter, Rounds, Details,
                 OracleStatuses, Requesters, Oracles>>

\* Mutant: anyone may accept a pending transfer.
accept_ownership_anyone(who, f) ==
  /\ Feeds[f] # None
  /\ Feeds[f].pending_owner # None
  /\ Feeds' = [Feeds EXCEPT ![f].pending_owner = None, ![f].owner = who]
  /\ UNCHANGED <<block_number, balances, adminVars, FeedCounter, Rounds, Details,
                 OracleStatuses, Requesters, Oracles>>

accept_ownership(who, f) ==
  /\ Feeds[f] # None
  /\ Feeds[f].pending_owner = who
  /\ Feeds' = [Feeds EXCEPT ![f].pending_owner = None, ![f].owner = who]
  /\ UNCHANGED <<block_number, balances, adminVars, FeedCounter, Rounds, Details,
                 OracleStatuses, Requesters, Oracles>>

set_pruning_window(who, f, window) ==
  /\ window > 0
  /\ OwnsFeed(who, f)
  /\ SyncToStorage(f, PruneAll([FeedAt(f) EXCEPT !.config.pruning_window = window]))
  /\ UNCHANGED <<block_number, balances, adminVars, FeedCounter, OracleStatuses,
                 Requesters, Oracles>>

(***************************************************************************)
(* submit.  The payment of the round is reserved on the fund, or else      *)
(* added to the debt of the feed, which max_debt bounds.                   *)
(***************************************************************************)
DebtAllowed(config, payment) ==
  config.max_debt # None => config.debt + payment <= config.max_debt

submit(oracle, f, r, v) ==
  LET status  == OracleStatuses[f][oracle]
      loaded  == FeedAt(f)
      started == StartIfDue(loaded, status, r, block_number)
      payment == started.details[r].payment
      synced  == RecordSubmission(started, r, v, block_number)
      payable == CanReserve(balances, Fund, payment)
  IN /\ Feeds[f] # None
     /\ status # None
     /\ ensure_valid_round(loaded, status, r, block_number)
     /\ Feeds[f].submission_value_bounds[1] <= v
     /\ v <= Feeds[f].submission_value_bounds[2]
     /\ next_eligible_round(Feeds[f], status) <= RoundIdMax
     /\ Starts(loaded, status, r) =>
          r <= MaxRound /\ can_initialize_round(loaded, r, block_number)
     /\ can_record_submission(started, r)
     /\ Oracles[oracle] # None
     /\ \/ /\ payable
           /\ balances' = Reserve(balances, Fund, payment)
           /\ SyncToStorage(f, synced)
        \/ /\ ~payable
           /\ DebtAllowed(Feeds[f], payment)
           /\ SyncToStorage(f, [synced EXCEPT !.config.debt = @ + payment])
           /\ UNCHANGED balances
     /\ OracleStatuses' = [OracleStatuses EXCEPT ![f][oracle] =
          [status EXCEPT !.last_reported_round = r,
                         !.last_started_round =
                           IF Starts(loaded, status, r) THEN r ELSE @]]
     /\ Oracles' = [Oracles EXCEPT ![oracle].withdrawable = @ + payment]
     /\ UNCHANGED <<block_number, adminVars, FeedCounter, Requesters>>

change_oracles(who, f, to_disable, to_add) ==
  LET disabled == disable_oracles(Feeds[f], OracleStatuses[f], to_disable)
      left     == Feeds[f].oracle_count - Len(to_disable)
  IN /\ OwnsFeed(who, f)
     /\ can_disable_oracles(Feeds[f], OracleStatuses[f], to_disable)
     /\ can_add_oracles(left, OracleCountLimit, disabled, Oracles, to_add)
     /\ Feeds' = [Feeds EXCEPT ![f].oracle_count = left + Len(to_add)]
     /\ OracleStatuses' = [OracleStatuses EXCEPT ![f] =
                             add_oracles(Feeds[f].reporting_round, disabled, to_add)]
     /\ Oracles' = TrackOracles(Oracles, to_add)
     /\ UNCHANGED <<block_number, balances, adminVars, FeedCounter, Rounds, Details,
                    Requesters>>

update_future_rounds_call(who, f, payment, bounds, delay, timeout) ==
  /\ OwnsFeed(who, f)
  /\ can_update_future_rounds(Feeds[f].oracle_count, bounds, delay)
  /\ Feeds' = [Feeds EXCEPT ![f] =
                 update_future_rounds(@, payment, bounds, delay, timeout)]
  /\ UNCHANGED <<block_number, balances, adminVars, FeedCounter, Rounds, Details,
                 OracleStatuses, Requesters, Oracles>>

-----------------------------------------------------------------------------
(***************************************************************************)
(* Round requests                                                          *)
(***************************************************************************)
set_requester(who, f, requester, delay) ==
  /\ OwnsFeed(who, f)
  /\ Requesters' = [Requesters EXCEPT ![f][requester] =
       [delay |-> delay,
        last_started_round |-> IF @ = None THEN None ELSE @.last_started_round]]
  /\ UNCHANGED <<block_number, balances, adminVars, FeedCounter, feedVars,
                 OracleStatuses, Oracles>>

remove_requester(who, f, requester) ==
  /\ OwnsFeed(who, f)
  /\ Requesters[f][requester] # None
  /\ Requesters' = [Requesters EXCEPT ![f][requester] = None]
  /\ UNCHANGED <<block_number, balances, adminVars, FeedCounter, feedVars,
                 OracleStatuses, Oracles>>

request_new_round(who, f) ==
  LET requester == Requesters[f][who]
      new       == Feeds[f].reporting_round + 1
  IN /\ Requesters[f][who] # None
     /\ Feeds[f] # None
     /\ new <= MaxRound
     /\ requester.last_started_round # None =>
          /\ requester.last_started_round + requester.delay <= RoundIdMax
          /\ new > requester.last_started_round + requester.delay
     /\ can_request_new_round(FeedAt(f), block_number)
     /\ Requesters' = [Requesters EXCEPT ![f][who].last_started_round = new]
     /\ SyncToStorage(f, initialize_round(FeedAt(f), new, block_number))
     /\ UNCHANGED <<block_number, balances, adminVars, FeedCounter, OracleStatuses,
                    Oracles>>

-----------------------------------------------------------------------------
\* Mutant: a withdrawal clears the balance of the oracle.
Debit_all(oracle, amount) ==
  [Oracles EXCEPT ![oracle].withdrawable = 0]

Debit(oracle, amount) ==
  [Oracles EXCEPT ![oracle].withdrawable = @ - amount]

(***************************************************************************)
(* Oracle operations.  withdraw_payment is not transactional: when the     *)
(* transfer fails, the unreserve before it stays.                          *)
(***************************************************************************)
withdraw_payment(who, oracle, recipient, amount) ==
  LET unreserved == Unreserve(balances, Fund, amount)
      sent       == CanTransfer(unreserved, Fund, recipient, amount)
  IN /\ Oracles[oracle] # None
     /\ Oracles[oracle].admin = who
     /\ amount <= Oracles[oracle].withdrawable
     /\ amount <= balances[Fund].reserved
     /\ \/ /\ sent
           /\ balances' = Transfer(unreserved, Fund, recipient, amount)
           /\ Oracles' = Debit(oracle, amount)
        \/ /\ ~sent
           /\ balances' = unreserved
           /\ UNCHANGED Oracles
     /\ UNCHANGED <<block_number, adminVars, FeedCounter, feedVars, OracleStatuses,
                    Requesters>>

transfer_admin(who, oracle, new_admin) ==
  /\ Oracles[oracle] # None
  /\ Oracles[oracle].admin = who
  /\ Oracles' = [Oracles EXCEPT ![oracle].pending_admin = new_admin]
  /\ UNCHANGED <<block_number, balances, adminVars, FeedCounter, feedVars,
                 OracleStatuses, Requesters>>

accept_admin(who, oracle) ==
  /\ Oracles[oracle] # None
  /\ Oracles[oracle].pending_admin = who
  /\ Oracles' = [Oracles EXCEPT ![oracle].pending_admin = None, ![oracle].admin = who]
  /\ UNCHANGED <<block_number, balances, adminVars, FeedCounter, feedVars,
                 OracleStatuses, Requesters>>

-----------------------------------------------------------------------------
(***************************************************************************)
(* Pallet admin operations                                                 *)
(***************************************************************************)
\* Mutant: the minimum reserve is not kept.
withdraw_funds_all(who, recipient, amount) ==
  /\ who = PalletAdmin
  /\ CanTransfer(balances, Fund, recipient, amount)
  /\ balances' = Transfer(balances, Fund, recipient, amount)
  /\ UNCHANGED <<block_number, adminVars, FeedCounter, feedVars, OracleStatuses,
                 Requesters, Oracles>>

withdraw_funds(who, recipient, amount) ==
  /\ who = PalletAdmin
  /\ balances[Fund].free - amount >= MinimumReserve
  /\ CanTransfer(balances, Fund, recipient, amount)
  /\ balances' = Transfer(balances, Fund, recipient, amount)
  /\ UNCHANGED <<block_number, adminVars, FeedCounter, feedVars, OracleStatuses,
                 Requesters, Oracles>>

\* Mutant: more than the debt is reserved.
reduce_debt_over_reserved(f, amount) ==
  /\ Feeds[f] # None
  /\ CanReserve(balances, Fund, amount)
  /\ balances' = Reserve(balances, Fund, amount)
  /\ Feeds' = [Feeds EXCEPT ![f].debt = @ - Min2(amount, @)]
  /\ UNCHANGED <<block_number, adminVars, FeedCounter, Rounds, Details,
                 OracleStatuses, Requesters, Oracles>>

\* Any signed account may call it.
reduce_debt(f, amount) ==
  LET to_reserve == Min2(amount, Feeds[f].debt)
  IN /\ Feeds[f] # None
     /\ CanReserve(balances, Fund, to_reserve)
     /\ balances' = Reserve(balances, Fund, to_reserve)
     /\ Feeds' = [Feeds EXCEPT ![f].debt = @ - to_reserve]
     /\ UNCHANGED <<block_number, adminVars, FeedCounter, Rounds, Details,
                    OracleStatuses, Requesters, Oracles>>

transfer_pallet_admin(who, new_admin) ==
  /\ who = PalletAdmin
  /\ PendingPalletAdmin' = new_admin
  /\ UNCHANGED <<block_number, balances, PalletAdmin, FeedCreators, FeedCounter,
                 feedVars, OracleStatuses, Requesters, Oracles>>

accept_pallet_admin(who) ==
  /\ who = PendingPalletAdmin
  /\ PendingPalletAdmin' = None
  /\ PalletAdmin' = who
  /\ UNCHANGED <<block_number, balances, FeedCreators, FeedCounter, feedVars,
                 OracleStatuses, Requesters, Oracles>>

set_feed_creator(who, creator) ==
  /\ who = PalletAdmin
  /\ FeedCreators' = FeedCreators \cup {creator}
  /\ UNCHANGED <<block_number, balances, PalletAdmin, PendingPalletAdmin,
                 FeedCounter, feedVars, OracleStatuses, Requesters, Oracles>>

remove_feed_creator(who, creator) ==
  /\ who = PalletAdmin
  /\ FeedCreators' = FeedCreators \ {creator}
  /\ UNCHANGED <<block_number, balances, PalletAdmin, PendingPalletAdmin,
                 FeedCounter, feedVars, OracleStatuses, Requesters, Oracles>>

-----------------------------------------------------------------------------
FeedCall(who, f) ==
  \/ \E new_owner \in Nominees : transfer_ownership(who, f, new_owner)
  \/ accept_ownership(who, f)
  \/ \E window \in Windows \ {None} : set_pruning_window(who, f, window)
  \/ \E r \in RoundId, v \in Values : submit(who, f, r, v)
  \/ \E to_disable \in DisableLists, to_add \in OracleLists :
       change_oracles(who, f, to_disable, to_add)
  \/ \E payment \in Payments, bounds \in CountBounds, delay \in RestartDelays,
        timeout \in Timeouts :
       update_future_rounds_call(who, f, payment, bounds, delay, timeout)
  \/ \E requester \in Requesting, delay \in RequesterDelays :
       set_requester(who, f, requester, delay)
  \/ \E requester \in Requesting : remove_requester(who, f, requester)
  \/ request_new_round(who, f)

PalletCall(who) ==
  \/ \E payment \in Payments, timeout \in Timeouts, values \in ValueBounds,
        bounds \in CountBounds, delay \in RestartDelays, list \in OracleLists,
        window \in Windows, max_debt \in MaxDebts :
       create_feed(who, payment, timeout, values, bounds[1], delay, list, window,
                   max_debt)
  \/ \E oracle \in Accounts, recipient \in Recipients, amount \in Amounts :
       withdraw_payment(who, oracle, recipient, amount)
  \/ \E oracle \in Accounts, new_admin \in Nominees :
       transfer_admin(who, oracle, new_admin)
  \/ \E oracle \in Accounts : accept_admin(who, oracle)
  \/ \E recipient \in Recipients, amount \in Amounts :
       withdraw_funds(who, recipient, amount)
  \/ \E new_admin \in Nominees : transfer_pallet_admin(who, new_admin)
  \/ accept_pallet_admin(who)
  \/ \E creator \in Nominees : set_feed_creator(who, creator)
  \/ \E creator \in Nominees : remove_feed_creator(who, creator)
  \/ \E amount \in Amounts : FundPallet(who, amount)

Next ==
  \/ NextBlock
  \/ \E who \in Signers : PalletCall(who)
  \/ \E who \in Signers, f \in FeedId : FeedCall(who, f)
  \/ \E f \in FeedId, amount \in Amounts : reduce_debt(f, amount)

Spec == Init /\ [][Next]_vars

-----------------------------------------------------------------------------
(***************************************************************************)
(* Properties                                                              *)
(***************************************************************************)
\* Every storage item holds a value of its Rust type.
TypeOK ==
  /\ block_number \in Nat
  /\ balances \in [Accounts -> AccountData]
  /\ PalletAdmin \in Accounts
  /\ PendingPalletAdmin \in Option(Accounts)
  /\ FeedCounter \in 0 .. FeedLimit
  /\ FeedCreators \subseteq Accounts
  /\ Feeds \in [FeedId -> Option(FeedConfig)]
  /\ Rounds \in [FeedId -> [RoundId -> Option(Round)]]
  /\ Details \in [FeedId -> [RoundId -> Option(RoundDetails)]]
  /\ OracleStatuses \in [FeedId -> [Accounts -> Option(OracleStatus)]]
  /\ Requesters \in [FeedId -> [Accounts -> Option(Requester)]]
  /\ Oracles \in [Accounts -> Option(OracleMeta)]

LiveFeeds == {f \in FeedId : Feeds[f] # None}

\* The debug assertion of latest_data: "The latest round data should always
\* be available", whatever was pruned, timed out or closed since.
LatestDataAvailable ==
  \A f \in LiveFeeds : HasData(Rounds[f][Feeds[f].latest_round])

\* Pruning leaves no gap and no orphan: stored are round 0 and exactly the
\* rounds from next_round_to_prune to reporting_round, and details only for
\* rounds that are stored themselves.
StorageIsContiguous ==
  \A f \in LiveFeeds : \A r \in RoundId :
    /\ Rounds[f][r] # None <=>
         \/ r = 0
         \/ Feeds[f].next_round_to_prune <= r /\ r <= Feeds[f].reporting_round
    /\ Details[f][r] # None => r # 0 /\ Rounds[f][r] # None

\* A round without an answer is never lost: it is the reporting round, it
\* still takes submissions, and it has fewer of them than it needs.
UnansweredRoundIsOpen ==
  \A f \in LiveFeeds : \A r \in RoundId :
    Rounds[f][r] # None /\ ~HasData(Rounds[f][r]) =>
      /\ r = Feeds[f].reporting_round
      /\ Rounds[f][r].updated_at = None
      /\ Details[f][r] # None
      /\ Len(Details[f][r].submissions) < Details[f][r].submission_count_bounds[1]

\* No oracle is counted twice in a round: the submissions of an open round
\* are at most as many as the oracles that have reported on it or later, and
\* always fewer than the maximum that closes it.
OneSubmissionPerOracle ==
  \A f \in LiveFeeds : \A r \in RoundId : Details[f][r] # None =>
    /\ Len(Details[f][r].submissions) < Details[f][r].submission_count_bounds[2]
    /\ Len(Details[f][r].submissions) <=
         Cardinality({o \in Accounts :
                        /\ OracleStatuses[f][o] # None
                        /\ OracleStatuses[f][o].last_reported_round # None
                        /\ OracleStatuses[f][o].last_reported_round >= r})

\* The answer a timed-out round carries over is the one of the round that
\* answered_in_round names, as long as that round is stored.
AnswerProvenance ==
  \A f \in LiveFeeds : \A r \in RoundId : HasData(Rounds[f][r]) =>
    LET origin == Rounds[f][r].answered_in_round
    IN /\ origin <= r
       /\ Rounds[f][origin] # None =>
            /\ Rounds[f][origin].answered_in_round = origin
            /\ Rounds[f][origin].answer = Rounds[f][r].answer

\* The answer of a round with an answer of its own, or carried over from one,
\* lies within the submission value bounds of the feed.  Below them it gets only
\* by the saturating sum in the median, and never below half of the largest value.
AnswerWithinBounds ==
  \A f \in LiveFeeds : \A r \in RoundId :
    HasData(Rounds[f][r]) /\ Rounds[f][r].answered_in_round > 0 =>
      /\ Min2(Feeds[f].submission_value_bounds[1], ValueMax \div 2) <= Rounds[f][r].answer
      /\ Rounds[f][r].answer <= Feeds[f].submission_value_bounds[2]

\* Each round is started once: no two oracles, no two requesters and no oracle
\* and requester have the same last_started_round.
OneStarterPerRound ==
  \A f \in LiveFeeds : \A a, b \in Accounts :
    LET startedBy(x) == IF x = None THEN None ELSE x.last_started_round
        oracle(x)    == startedBy(OracleStatuses[f][x])
        requester(x) == startedBy(Requesters[f][x])
    IN /\ a # b /\ oracle(a) # None => oracle(a) # oracle(b)
       /\ a # b /\ requester(a) # None => requester(a) # requester(b)
       /\ oracle(a) # None => oracle(a) # requester(b)

MovesForward(f) ==
  /\ Feeds'[f].reporting_round \in
       {Feeds[f].reporting_round, Feeds[f].reporting_round + 1}
  /\ Feeds'[f].latest_round >= Feeds[f].latest_round
  /\ Feeds'[f].latest_round <= Feeds'[f].reporting_round
  /\ Feeds'[f].next_round_to_prune >= Feeds[f].next_round_to_prune

\* Rounds only move forward: a step starts at most one round, never takes
\* back the latest answered round and never un-prunes.
RoundsMoveForward == [][\A f \in LiveFeeds : MovesForward(f)]_vars

StaysClosed(f, r) ==
  HasData(Rounds[f][r]) /\ Details[f][r] = None =>
    Rounds'[f][r] \in {Rounds[f][r], None} /\ Details'[f][r] = None

\* A closed round (answered or timed out, details gone) is not opened again
\* and keeps its data until it is pruned.
ClosedRoundsAreFrozen ==
  [][\A f \in LiveFeeds : \A r \in RoundId : StaysClosed(f, r)]_vars

\* oracle_count is the number of enabled oracles of the feed, whatever lists
\* of oracles were disabled, added and added again.
OracleCountExact ==
  \A f \in LiveFeeds :
    Feeds[f].oracle_count =
      Cardinality({o \in Accounts : Enabled(OracleStatuses[f][o])})

SomeoneStarts(f) ==
  \E o \in Accounts :
    /\ Enabled(OracleStatuses[f][o])
    /\ Starts(FeedAt(f), OracleStatuses[f][o], Feeds[f].reporting_round + 1)

DelayIsSet(f) ==
  Feeds[f] = None \/ Feeds'[f].restart_delay # Feeds[f].restart_delay

\* update_future_rounds: "Make sure that at least one oracle can request a new
\* round."  Some enabled oracle is past its restart delay when the delay is set,
\* and from then on as long as there are more oracles than rounds of delay, who-
\* ever starts rounds, is disabled and is added again.  (change_oracles does not
\* look at the delay, and may leave so few that all of them have to wait.)
SomeOracleCanStart ==
  [][\A f \in LiveFeeds' :
       DelayIsSet(f) \/ Feeds'[f].restart_delay < Feeds'[f].oracle_count =>
         SomeoneStarts(f)']_vars

CanClose(f) == can_close_timed_out_round(FeedAt(f), Feeds[f].reporting_round)

\* initialize_round: "Will close the previous one if it is timed out."  With a
\* pruning window above 1 no step takes away the round before the reporting one,
\* whose answer the closing needs, and no round starts after one that is gone.
\* (With a window of 1 an answer prunes it, and a time-out then blocks the feed.)
TimedOutRoundCanBeClosed ==
  [][\A f \in LiveFeeds :
       CanClose(f) /\ Feeds'[f].pruning_window > 1 => CanClose(f)']_vars

\* FeedInterface: "Check first_valid_round to determine whether there is useful
\* data, yet."  Once it is set, the latest data is not the default of round 0.
FirstValidRoundMeansUsefulData ==
  \A f \in LiveFeeds :
    Feeds[f].first_valid_round # None =>
      Rounds[f][Feeds[f].latest_round].answered_in_round > 0

-----------------------------------------------------------------------------
(***************************************************************************)
(* The inductive invariant behind the properties of the rounds: every feed *)
(* is well-formed, and nothing is stored for feeds not created yet.        *)
(***************************************************************************)
FeedInv(f) ==
  IF f < FeedCounter
  THEN /\ Feeds[f] # None
       /\ WellFormed(FeedAt(f))
       /\ Feeds[f].reporting_round <= MaxRound
  ELSE /\ Feeds[f] = None
       /\ \A r \in RoundId : Rounds[f][r] = None /\ Details[f][r] = None

IInv == TypeOK /\ \A f \in FeedId : FeedInv(f)

-----------------------------------------------------------------------------
(***************************************************************************)
(* The ledger.  Owed is what the oracles may still withdraw, Backing what  *)
(* the pallet holds against it: the reserve of the fund and the debts of   *)
(* the feeds.                                                              *)
(***************************************************************************)
Owed ==
  MapThenSumSet(LAMBDA a : IF Oracles[a] = None THEN 0 ELSE Oracles[a].withdrawable,
                Accounts)

Backing ==
  balances[Fund].reserved
    + MapThenSumSet(LAMBDA f : IF Feeds[f] = None THEN 0 ELSE Feeds[f].debt, FeedId)

\* The pallet never sets aside or books more than it owes: reserve and debt
\* together stay within the withdrawable payments.
BackingWithinOwed == Backing <= Owed

\* Every payment earned or withdrawn moves reserve and debt by the same amount,
\* in whatever order submissions, withdrawals and debt reductions come.
PaymentsAreBacked == [][Owed' # Owed => Owed' - Owed = Backing' - Backing]_vars

\* Funds leave the fund account only against withdrawable payments of the same
\* amount, or out of the free balance above the minimum reserve.
OnlyEarnedOrSpareFundsLeave ==
  [][LET paid == Total(balances[Fund]) - Total(balances'[Fund])
     IN paid > 0 =>
          \/ Owed - Owed' = paid
          \/ /\ balances'[Fund].reserved = balances[Fund].reserved
             /\ balances'[Fund].free >= MinimumReserve]_vars

-----------------------------------------------------------------------------
\* Owners, oracle admins and the pallet admin change only to an account that
\* the holder of the role named and that has not been replaced since, and a
\* nomination is used up by its acceptance.  In particular no feed owner can
\* change the admin of an oracle that other feeds use.
RolesChangeByConsent ==
  [][/\ \A f \in LiveFeeds : Feeds'[f].owner # Feeds[f].owner =>
          /\ Feeds'[f].owner = Feeds[f].pending_owner
          /\ Feeds'[f].pending_owner = None
     /\ \A a \in Accounts : Oracles[a] # None =>
          /\ Oracles'[a] # None
          /\ Oracles'[a].admin # Oracles[a].admin =>
               /\ Oracles'[a].admin = Oracles[a].pending_admin
               /\ Oracles'[a].pending_admin = None
     /\ PalletAdmin' # PalletAdmin =>
          /\ PalletAdmin' = PendingPalletAdmin
          /\ PendingPalletAdmin' = None]_vars
=============================================================================
