------------------------- MODULE FeedStorageProofs --------------------------
(***************************************************************************)
(* What the extrinsics of pallet-chainlink-feed do to stored feeds: the    *)
(* inductive invariant in two parts, how a written feed keeps it, and the  *)
(* extrinsics that leave the rounds alone.                                 *)
(***************************************************************************)
EXTENDS ChainlinkFeed, FeedProofs, BalancesProofs

(***************************************************************************)
(* TypeOK in two parts: the feeds, and everything else.                    *)
(***************************************************************************)
FeedsOK ==
  /\ FeedCounter \in 0 .. FeedLimit
  /\ Feeds \in [FeedId -> Option(FeedConfig)]
  /\ Rounds \in [FeedId -> [RoundId -> Option(Round)]]
  /\ Details \in [FeedId -> [RoundId -> Option(RoundDetails)]]
  /\ \A f \in FeedId : FeedInv(f)

OthersOK ==
  /\ block_number \in Nat
  /\ balances \in [Accounts -> AccountData]
  /\ PalletAdmin \in Accounts
  /\ PendingPalletAdmin \in Option(Accounts)
  /\ FeedCreators \subseteq Accounts
  /\ OracleStatuses \in [FeedId -> [Accounts -> Option(OracleStatus)]]
  /\ Requesters \in [FeedId -> [Accounts -> Option(Requester)]]
  /\ Oracles \in [Accounts -> Option(OracleMeta)]

\* What a step does to the feeds: they stay well-formed, and a feed that is
\* there only advances and keeps its closed rounds.
FeedsKept ==
  /\ FeedsOK'
  /\ \A f \in FeedId : Feeds[f] # None =>
       /\ Feeds'[f] # None
       /\ Advances(FeedAt(f), FeedAt(f)')
       /\ Frozen(FeedAt(f), FeedAt(f)')

-----------------------------------------------------------------------------
(***************************************************************************)
(* Writing feeds                                                           *)
(***************************************************************************)

\* A feed in storage loads as a well-formed feed.
LEMMA LoadedFeed ==
  ASSUME FeedsOK, NEW f \in FeedId, Feeds[f] # None
  PROVE  /\ FeedAt(f) \in FeedState
         /\ FeedAt(f).config = Feeds[f]
         /\ FeedAt(f).rounds = Rounds[f]
         /\ FeedAt(f).details = Details[f]
         /\ WellFormed(FeedAt(f))
         /\ Feeds[f] \in FeedConfig
         /\ Feeds[f].reporting_round <= MaxRound
         /\ Feeds[f].reporting_round < RoundIdMax
         /\ f < FeedCounter
<1>1. f < FeedCounter
  BY DEF FeedsOK, FeedInv
<1>2. /\ Feeds[f] \in FeedConfig
      /\ Rounds[f] \in [RoundId -> Option(Round)]
      /\ Details[f] \in [RoundId -> Option(RoundDetails)]
  BY DEF FeedsOK, Option
<1>3. Feeds[f].reporting_round <= MaxRound /\ WellFormed(FeedAt(f))
  BY <1>1 DEF FeedsOK, FeedInv
<1>4. Feeds[f].reporting_round < RoundIdMax
  <2>1. Feeds[f].reporting_round \in RoundId
    BY <1>2 DEF FeedConfig
  <2>2. Feeds[f].reporting_round \in Nat /\ MaxRound \in Nat
    BY <2>1, ChainlinkFeedAssumption DEF RoundId
  <2>3. MaxRound < RoundIdMax /\ RoundIdMax \in Nat
    BY ChainlinkFeedAssumption, RoundIdMaxAssumption
  <2> QED
    BY <1>3, <2>2, <2>3
<1> QED
  BY <1>1, <1>2, <1>3, <1>4 DEF FeedAt, FeedState

\* Nothing moves while the feeds are left alone.
LEMMA NoStepOnFeeds ==
  ASSUME NEW fs \in FeedState
  PROVE  Advances(fs, fs) /\ Frozen(fs, fs)
<1>1. /\ fs.config.latest_round \in Int /\ fs.config.reporting_round \in Int
      /\ fs.config.next_round_to_prune \in Int
  BY DEF FeedState, FeedConfig, RoundId
<1> QED
  BY <1>1 DEF Advances, Frozen

\* An extrinsic that leaves the feeds alone keeps them.
LEMMA FeedsUnchanged ==
  ASSUME FeedsOK, UNCHANGED <<feedVars, FeedCounter>>
  PROVE  FeedsKept
<1>1. /\ Feeds' = Feeds /\ Rounds' = Rounds /\ Details' = Details
      /\ FeedCounter' = FeedCounter
  BY DEF feedVars
<1>2. \A f \in FeedId : FeedAt(f)' = FeedAt(f)
  BY <1>1 DEF FeedAt
<1>3. FeedsOK'
  BY <1>1, <1>2 DEF FeedsOK, FeedInv
<1>4. ASSUME NEW f \in FeedId, Feeds[f] # None
      PROVE  /\ Feeds'[f] # None
             /\ Advances(FeedAt(f), FeedAt(f)')
             /\ Frozen(FeedAt(f), FeedAt(f)')
  BY <1>1, <1>2, <1>4, LoadedFeed, NoStepOnFeeds
<1> QED
  BY <1>3, <1>4 DEF FeedsKept

\* Writing back a well-formed feed that has only advanced.
LEMMA SyncKeeps ==
  ASSUME FeedsOK, NEW f \in FeedId, Feeds[f] # None,
         NEW g \in FeedState, WellFormed(g),
         g.config.reporting_round <= MaxRound,
         Advances(FeedAt(f), g), Frozen(FeedAt(f), g),
         SyncToStorage(f, g), FeedCounter' = FeedCounter
  PROVE  FeedsKept
<1>1. /\ g.config \in FeedConfig
      /\ g.rounds \in [RoundId -> Option(Round)]
      /\ g.details \in [RoundId -> Option(RoundDetails)]
      /\ g = [config |-> g.config, rounds |-> g.rounds, details |-> g.details]
  BY DEF FeedState
<1>2. /\ Feeds' = [Feeds EXCEPT ![f] = g.config]
      /\ Rounds' = [Rounds EXCEPT ![f] = g.rounds]
      /\ Details' = [Details EXCEPT ![f] = g.details]
  BY DEF SyncToStorage
<1>3. /\ Feeds' \in [FeedId -> Option(FeedConfig)]
      /\ Rounds' \in [FeedId -> [RoundId -> Option(Round)]]
      /\ Details' \in [FeedId -> [RoundId -> Option(RoundDetails)]]
  BY <1>1, <1>2 DEF FeedsOK, Option
<1>4. /\ Feeds'[f] = g.config /\ Rounds'[f] = g.rounds /\ Details'[f] = g.details
      /\ \A h \in FeedId \ {f} : /\ Feeds'[h] = Feeds[h] /\ Rounds'[h] = Rounds[h]
                                 /\ Details'[h] = Details[h]
  BY <1>2 DEF FeedsOK
<1>5. FeedAt(f)' = g
  BY <1>1, <1>4 DEF FeedAt
<1>6. \A h \in FeedId \ {f} : FeedAt(h)' = FeedAt(h)
  BY <1>4 DEF FeedAt
<1>7. g.config # None
  BY <1>1, NoneAssumption
<1>8. ASSUME NEW h \in FeedId PROVE FeedInv(h)'
  <2>1. CASE h = f
    <3>1. f < FeedCounter
      BY LoadedFeed
    <3> QED
      BY <2>1, <3>1, <1>4, <1>5, <1>7 DEF FeedInv
  <2>2. CASE h # f
    <3>1. FeedInv(h)
      BY DEF FeedsOK
    <3> QED
      BY <2>2, <3>1, <1>4, <1>6 DEF FeedInv
  <2> QED
    BY <2>1, <2>2
<1>9. FeedsOK'
  BY <1>3, <1>8 DEF FeedsOK
<1>10. ASSUME NEW h \in FeedId, Feeds[h] # None
       PROVE  /\ Feeds'[h] # None
              /\ Advances(FeedAt(h), FeedAt(h)')
              /\ Frozen(FeedAt(h), FeedAt(h)')
  <2>1. CASE h = f
    BY <2>1, <1>4, <1>5, <1>7
  <2>2. CASE h # f
    BY <2>2, <1>4, <1>6, <1>10, LoadedFeed, NoStepOnFeeds
  <2> QED
    BY <2>1, <2>2
<1> QED
  BY <1>9, <1>10 DEF FeedsKept

\* The same for a call that changes only the configuration, and in it nothing
\* that the rounds depend on but the bounds for future ones.
LEMMA ConfigKeeps ==
  ASSUME FeedsOK, NEW f \in FeedId, Feeds[f] # None,
         NEW config \in FeedConfig,
         config.latest_round = Feeds[f].latest_round,
         config.reporting_round = Feeds[f].reporting_round,
         config.next_round_to_prune = Feeds[f].next_round_to_prune,
         config.pruning_window = Feeds[f].pruning_window,
         ProperBounds(config.submission_count_bounds),
         Feeds' = [Feeds EXCEPT ![f] = config],
         UNCHANGED <<Rounds, Details, FeedCounter>>
  PROVE  FeedsKept
<1> DEFINE fs == FeedAt(f)
           g == [config |-> config, rounds |-> Rounds[f], details |-> Details[f]]
<1>1. /\ fs \in FeedState /\ WellFormed(fs)
      /\ fs.config = Feeds[f] /\ fs.rounds = Rounds[f] /\ fs.details = Details[f]
      /\ Feeds[f].reporting_round <= MaxRound
  BY LoadedFeed
<1>2. g.config = config /\ g.rounds = Rounds[f] /\ g.details = Details[f]
  OBVIOUS
<1>3. g \in FeedState
  BY <1>1, <1>2 DEF FeedState
<1> HIDE DEF fs, g
<1>4. \A r \in RoundId : WellStored(g, r) /\ OpenOrAnswered(g, r)
  BY <1>1, <1>2 DEF WellFormed, WellStored, OpenOrAnswered
<1>5. WellFormed(g)
  BY <1>1, <1>2, <1>4 DEF WellFormed
<1>6. Advances(fs, g) /\ Frozen(fs, g)
  BY <1>1, <1>2, NoStepOnFeeds DEF Advances, Frozen
<1>7. SyncToStorage(f, g)
  <2>1. Rounds' = [Rounds EXCEPT ![f] = Rounds[f]] /\ Details' = [Details EXCEPT ![f] = Details[f]]
    BY DEF FeedsOK
  <2> QED
    BY Zenon, <1>2, <2>1 DEF SyncToStorage
<1> QED
  BY <1>1, <1>2, <1>3, <1>5, <1>6, <1>7, SyncKeeps DEF fs

-----------------------------------------------------------------------------
(***************************************************************************)
(* The types of what the extrinsics compute                                *)
(***************************************************************************)

\* Disabling and adding oracles gives statuses.
LEMMA DisableTyped ==
  ASSUME NEW config \in FeedConfig,
         NEW statuses \in [Accounts -> Option(OracleStatus)],
         NEW list \in Seq(Accounts),
         can_disable_oracles(config, statuses, list)
  PROVE  disable_oracles(config, statuses, list) \in [Accounts -> Option(OracleStatus)]
<1>1. config.reporting_round \in RoundId
  BY DEF FeedConfig
<1>2. ASSUME NEW o \in Accounts, \E i \in DOMAIN list : list[i] = o
      PROVE  [statuses[o] EXCEPT !.ending_round = config.reporting_round] \in OracleStatus
  <2>1. statuses[o] \in OracleStatus
    BY <1>2 DEF can_disable_oracles, Enabled, Option
  <2> QED
    BY <2>1, <1>1 DEF OracleStatus, Option
<1> QED
  BY <1>2 DEF disable_oracles, Option

\* add_oracles keeps the types of the statuses.
LEMMA AddTyped ==
  ASSUME NEW r \in RoundId,
         NEW statuses \in [Accounts -> Option(OracleStatus)],
         NEW list \in Seq(Accounts \X Accounts)
  PROVE  add_oracles(r, statuses, list) \in [Accounts -> Option(OracleStatus)]
<1>1. NewOracleStatus(r) \in OracleStatus
  BY DEF NewOracleStatus, OracleStatus, Option
<1>2. ASSUME NEW o \in Accounts, statuses[o] # None
      PROVE  [statuses[o] EXCEPT !.starting_round = r, !.ending_round = None] \in OracleStatus
  <2>1. statuses[o] \in OracleStatus
    BY <1>2 DEF Option
  <2> QED
    BY Zenon, <2>1 DEF OracleStatus, Option
<1> QED
  BY Zenon, <1>1, <1>2 DEF add_oracles, Option

\* Tracking the admins of added oracles keeps the types of Oracles.
LEMMA TrackTyped ==
  ASSUME NEW metas \in [Accounts -> Option(OracleMeta)],
         NEW list \in Seq(Accounts \X Accounts)
  PROVE  TrackOracles(metas, list) \in [Accounts -> Option(OracleMeta)]
<1>1. ASSUME NEW a \in Accounts, \E i \in DOMAIN list : list[i][1] = a
      PROVE  [withdrawable  |-> 0,
              admin         |-> list[CHOOSE i \in DOMAIN list : list[i][1] = a][2],
              pending_admin |-> None] \in OracleMeta
  <2> DEFINE k == CHOOSE i \in DOMAIN list : list[i][1] = a
  <2>1. k \in DOMAIN list
    BY <1>1
  <2> HIDE DEF k
  <2>2. list[k] \in Accounts \X Accounts
    BY <2>1
  <2>3. list[k][2] \in Accounts
    BY <2>2
  <2> QED
    BY <2>3 DEF OracleMeta, Option, k
<1> QED
  BY <1>1 DEF TrackOracles, Option

-----------------------------------------------------------------------------
(***************************************************************************)
(* One lemma per extrinsic, or per group of extrinsics that write the same *)
(* storage item                                                            *)
(***************************************************************************)

\* The extrinsics that leave the feeds alone and handle balances or roles.
LEMMA AdminStep ==
  ASSUME FeedsOK, OthersOK, NEW who \in Signers,
         \/ NextBlock
         \/ \E new_admin \in Nominees : transfer_pallet_admin(who, new_admin)
         \/ accept_pallet_admin(who)
         \/ \E creator \in Nominees : set_feed_creator(who, creator)
         \/ \E creator \in Nominees : remove_feed_creator(who, creator)
  PROVE  FeedsKept /\ OthersOK'
<1>1. UNCHANGED <<feedVars, FeedCounter>>
  BY DEF NextBlock, transfer_pallet_admin, accept_pallet_admin, set_feed_creator,
         remove_feed_creator
<1>2. UNCHANGED <<balances, OracleStatuses, Requesters, Oracles>>
  BY DEF NextBlock, transfer_pallet_admin, accept_pallet_admin, set_feed_creator,
         remove_feed_creator
<1>3. who \in Accounts
  BY DEF Signers
<1>4. /\ block_number' \in Nat
      /\ PalletAdmin' \in Accounts
      /\ PendingPalletAdmin' \in Option(Accounts)
      /\ FeedCreators' \subseteq Accounts
  <2>1. CASE NextBlock
    BY <2>1 DEF NextBlock, OthersOK, adminVars
  <2>2. CASE \E new_admin \in Nominees : transfer_pallet_admin(who, new_admin)
    BY <2>2, InputAssumption DEF transfer_pallet_admin, OthersOK, Option
  <2>3. CASE accept_pallet_admin(who)
    BY <2>3, <1>3 DEF accept_pallet_admin, OthersOK, Option
  <2>4. CASE \E creator \in Nominees : set_feed_creator(who, creator)
    BY <2>4, InputAssumption DEF set_feed_creator, OthersOK, Option
  <2>5. CASE \E creator \in Nominees : remove_feed_creator(who, creator)
    BY <2>5 DEF remove_feed_creator, OthersOK, Option
  <2> QED
    BY <2>1, <2>2, <2>3, <2>4, <2>5
<1> QED
  BY <1>1, <1>2, <1>4, FeedsUnchanged DEF OthersOK

\* withdraw_funds and a transfer to the fund leave the feeds alone.
LEMMA FundsStep ==
  ASSUME FeedsOK, OthersOK, NEW who \in Signers, NEW amount \in Amounts,
         \/ FundPallet(who, amount)
         \/ \E recipient \in Recipients : withdraw_funds(who, recipient, amount)
  PROVE  FeedsKept /\ OthersOK'
<1>1. UNCHANGED <<feedVars, FeedCounter>>
  BY DEF FundPallet, withdraw_funds
<1>2. UNCHANGED <<block_number, adminVars, OracleStatuses, Requesters, Oracles>>
  BY DEF FundPallet, withdraw_funds
<1>3. balances' \in [Accounts -> AccountData]
  <2>1. PICK from \in Accounts, to \in Accounts :
          /\ CanTransfer(balances, from, to, amount)
          /\ balances' = Transfer(balances, from, to, amount)
    BY ChainlinkFeedAssumption, InputAssumption DEF FundPallet, withdraw_funds, Signers
  <2>2. amount \in Nat /\ balances \in [Accounts -> AccountData]
    BY InputAssumption DEF OthersOK
  <2> QED
    BY <2>1, <2>2, TransferTyped
<1> QED
  BY <1>1, <1>2, <1>3, FeedsUnchanged DEF OthersOK, adminVars

\* Setting and removing a requester leave the feeds alone.
LEMMA RequesterStep ==
  ASSUME FeedsOK, OthersOK, NEW who \in Signers, NEW f \in FeedId,
         \/ \E requester \in Requesting, delay \in RequesterDelays :
              set_requester(who, f, requester, delay)
         \/ \E requester \in Requesting : remove_requester(who, f, requester)
  PROVE  FeedsKept /\ OthersOK'
<1>1. UNCHANGED <<feedVars, FeedCounter>>
  BY DEF set_requester, remove_requester
<1>2. UNCHANGED <<block_number, balances, adminVars, OracleStatuses, Oracles>>
  BY DEF set_requester, remove_requester
<1>3. Requesters' \in [FeedId -> [Accounts -> Option(Requester)]]
  <2>1. PICK a \in Accounts, q \in Option(Requester) :
          Requesters' = [Requesters EXCEPT ![f][a] = q]
    <3>1. CASE \E requester \in Requesting, delay \in RequesterDelays :
                 set_requester(who, f, requester, delay)
      <4>1. PICK a \in Requesting, delay \in RequesterDelays :
              set_requester(who, f, a, delay)
        BY <3>1
      <4> DEFINE old == Requesters[f][a]
                 q == [delay |-> delay,
                       last_started_round |-> IF old = None THEN None
                                              ELSE old.last_started_round]
      <4>2. a \in Accounts /\ delay \in RoundId
        BY InputAssumption
      <4>3. old \in Option(Requester)
        BY <4>2 DEF OthersOK
      <4>4. q \in Requester
        <5>1. old # None => old.last_started_round \in Option(RoundId)
          BY <4>3 DEF Requester, Option
        <5> HIDE DEF old
        <5>2. (IF old = None THEN None ELSE old.last_started_round) \in Option(RoundId)
          BY <5>1 DEF Option
        <5> QED
          BY <4>2, <5>2 DEF Requester
      <4>5. Requesters' = [Requesters EXCEPT ![f][a] = q]
        BY <4>1 DEF set_requester
      <4> QED
        BY Zenon, <4>2, <4>4, <4>5 DEF Option
    <3>2. CASE \E requester \in Requesting : remove_requester(who, f, requester)
      BY Zenon, <3>2, InputAssumption DEF remove_requester, Option
    <3> QED
      BY <3>1, <3>2
  <2>2. Requesters \in [FeedId -> [Accounts -> Option(Requester)]]
    BY DEF OthersOK
  <2> QED
    BY <2>1, <2>2
<1> QED
  BY <1>1, <1>2, <1>3, FeedsUnchanged DEF OthersOK, adminVars

\* Handing over an oracle's administration leaves the feeds alone.
LEMMA OracleAdminStep ==
  ASSUME FeedsOK, OthersOK, NEW who \in Signers, NEW oracle \in Accounts,
         \/ \E new_admin \in Nominees : transfer_admin(who, oracle, new_admin)
         \/ accept_admin(who, oracle)
  PROVE  FeedsKept /\ OthersOK'
<1>1. UNCHANGED <<feedVars, FeedCounter>>
  BY DEF transfer_admin, accept_admin
<1>2. UNCHANGED <<block_number, balances, adminVars, OracleStatuses, Requesters>>
  BY DEF transfer_admin, accept_admin
<1>3. Oracles[oracle] \in OracleMeta
  BY DEF transfer_admin, accept_admin, OthersOK, Option
<1>4. who \in Accounts
  BY DEF Signers
<1>5. PICK m \in OracleMeta : Oracles' = [Oracles EXCEPT ![oracle] = m]
  <2>1. CASE \E new_admin \in Nominees : transfer_admin(who, oracle, new_admin)
    <3>1. PICK new_admin \in Nominees : transfer_admin(who, oracle, new_admin)
      BY <2>1
    <3>2. [Oracles[oracle] EXCEPT !.pending_admin = new_admin] \in OracleMeta
      BY <1>3, InputAssumption DEF OracleMeta, Option
    <3> QED
      BY Zenon, <3>1, <3>2 DEF transfer_admin, OthersOK
  <2>2. CASE accept_admin(who, oracle)
    <3>1. [Oracles[oracle] EXCEPT !.pending_admin = None, !.admin = who] \in OracleMeta
      BY Zenon, <1>3, <1>4 DEF OracleMeta, Option
    <3> QED
      BY Zenon, <2>2, <3>1 DEF accept_admin, OthersOK
  <2> QED
    BY <2>1, <2>2
<1>6. Oracles' \in [Accounts -> Option(OracleMeta)]
  BY <1>5 DEF OthersOK, Option
<1> QED
  BY <1>1, <1>2, <1>6, FeedsUnchanged DEF OthersOK, adminVars

\* withdraw_payment leaves the feeds alone, also when it fails.
LEMMA WithdrawPaymentStep ==
  ASSUME FeedsOK, OthersOK, NEW who \in Signers, NEW oracle \in Accounts,
         NEW recipient \in Recipients, NEW amount \in Amounts,
         withdraw_payment(who, oracle, recipient, amount)
  PROVE  FeedsKept /\ OthersOK'
<1> DEFINE unreserved == Unreserve(balances, Fund, amount)
<1>1. UNCHANGED <<feedVars, FeedCounter>>
  BY DEF withdraw_payment
<1>2. UNCHANGED <<block_number, adminVars, OracleStatuses, Requesters>>
  BY DEF withdraw_payment
<1>3. /\ amount \in Nat /\ recipient \in Accounts /\ Fund \in Accounts
      /\ balances \in [Accounts -> AccountData]
  BY InputAssumption, ChainlinkFeedAssumption DEF OthersOK
<1>4. unreserved \in [Accounts -> AccountData]
  BY <1>3, UnreserveTyped
<1>5. \/ /\ CanTransfer(unreserved, Fund, recipient, amount)
         /\ balances' = Transfer(unreserved, Fund, recipient, amount)
         /\ Oracles' = Debit(oracle, amount)
      \/ balances' = unreserved /\ Oracles' = Oracles
  BY DEF withdraw_payment
<1>6. balances' \in [Accounts -> AccountData]
  <2> HIDE DEF unreserved
  <2> QED
    BY <1>3, <1>4, <1>5, TransferTyped
<1>7. Oracles[oracle] \in OracleMeta /\ amount <= Oracles[oracle].withdrawable
  BY DEF withdraw_payment, OthersOK, Option
<1> DEFINE meta == [Oracles[oracle] EXCEPT !.withdrawable = @ - amount]
<1>8. meta \in OracleMeta
  <2>1. Oracles[oracle].withdrawable - amount \in Nat
    BY <1>3, <1>7 DEF OracleMeta
  <2> QED
    BY <1>7, <2>1 DEF OracleMeta
<1>9. Debit(oracle, amount) \in [Accounts -> Option(OracleMeta)]
  <2>1. Debit(oracle, amount) = [Oracles EXCEPT ![oracle] = meta]
    BY DEF Debit
  <2> HIDE DEF meta
  <2> QED
    BY <1>8, <2>1 DEF OthersOK, Option
<1>10. Oracles' \in [Accounts -> Option(OracleMeta)]
  BY <1>5, <1>9 DEF OthersOK
<1> QED
  BY <1>1, <1>2, <1>6, <1>10, FeedsUnchanged DEF OthersOK, adminVars

\* The extrinsics that change the configuration of a feed and no round of it.
LEMMA OwnershipStep ==
  ASSUME FeedsOK, OthersOK, NEW who \in Signers, NEW f \in FeedId,
         \/ \E new_owner \in Nominees : transfer_ownership(who, f, new_owner)
         \/ accept_ownership(who, f)
  PROVE  FeedsKept /\ OthersOK'
<1>1. UNCHANGED <<Rounds, Details, FeedCounter>>
  BY DEF transfer_ownership, accept_ownership
<1>2. UNCHANGED <<block_number, balances, adminVars, OracleStatuses, Requesters, Oracles>>
  BY DEF transfer_ownership, accept_ownership
<1>3. Feeds[f] # None
  BY DEF transfer_ownership, accept_ownership, OwnsFeed
<1>4. who \in Accounts
  BY DEF Signers
<1>5. /\ Feeds[f] \in FeedConfig
      /\ ProperBounds(Feeds[f].submission_count_bounds)
  BY <1>3, LoadedFeed DEF WellFormed
<1>6. FeedsKept
  <2>1. CASE \E new_owner \in Nominees : transfer_ownership(who, f, new_owner)
    <3>1. PICK new_owner \in Nominees : transfer_ownership(who, f, new_owner)
      BY <2>1
    <3> DEFINE config == [Feeds[f] EXCEPT !.pending_owner = new_owner]
    <3>2. /\ config \in FeedConfig
          /\ config.latest_round = Feeds[f].latest_round
          /\ config.reporting_round = Feeds[f].reporting_round
          /\ config.next_round_to_prune = Feeds[f].next_round_to_prune
          /\ config.pruning_window = Feeds[f].pruning_window
          /\ config.submission_count_bounds = Feeds[f].submission_count_bounds
      BY <1>5, InputAssumption DEF FeedConfig, Option
    <3>3. Feeds' = [Feeds EXCEPT ![f] = config]
      BY <3>1 DEF transfer_ownership
    <3> HIDE DEF config
    <3> QED
      BY Zenon, <1>1, <1>3, <1>5, <3>2, <3>3, ConfigKeeps
  <2>2. CASE accept_ownership(who, f)
    <3> DEFINE config == [Feeds[f] EXCEPT !.pending_owner = None, !.owner = who]
    <3>2. /\ config \in FeedConfig
          /\ config.latest_round = Feeds[f].latest_round
          /\ config.reporting_round = Feeds[f].reporting_round
          /\ config.next_round_to_prune = Feeds[f].next_round_to_prune
          /\ config.pruning_window = Feeds[f].pruning_window
          /\ config.submission_count_bounds = Feeds[f].submission_count_bounds
      BY Zenon, <1>4, <1>5 DEF FeedConfig, Option
    <3>3. Feeds' = [Feeds EXCEPT ![f] = config]
      BY Zenon, <2>2 DEF accept_ownership, FeedsOK
    <3> HIDE DEF config
    <3> QED
      BY Zenon, <1>1, <1>3, <1>5, <3>2, <3>3, ConfigKeeps
  <2> QED
    BY <2>1, <2>2
<1> QED
  BY <1>2, <1>6 DEF OthersOK, adminVars

\* update_future_rounds keeps the rounds of its feed.
LEMMA UpdateFutureRoundsStep ==
  ASSUME FeedsOK, OthersOK, NEW who \in Signers, NEW f \in FeedId,
         NEW payment \in Payments, NEW bounds \in CountBounds,
         NEW delay \in RestartDelays, NEW timeout \in Timeouts,
         update_future_rounds_call(who, f, payment, bounds, delay, timeout)
  PROVE  FeedsKept /\ OthersOK'
<1> DEFINE config == update_future_rounds(Feeds[f], payment, bounds, delay, timeout)
<1>1. UNCHANGED <<Rounds, Details, FeedCounter>>
  BY DEF update_future_rounds_call
<1>2. UNCHANGED <<block_number, balances, adminVars, OracleStatuses, Requesters, Oracles>>
  BY DEF update_future_rounds_call
<1>3. Feeds[f] # None
  BY DEF update_future_rounds_call, OwnsFeed
<1>4. Feeds[f] \in FeedConfig
  BY <1>3, LoadedFeed
<1>5. /\ payment \in Nat /\ bounds \in Nat \X Nat /\ delay \in RoundId /\ timeout \in Nat
  BY InputAssumption
<1>6. /\ config \in FeedConfig
      /\ config.latest_round = Feeds[f].latest_round
      /\ config.reporting_round = Feeds[f].reporting_round
      /\ config.next_round_to_prune = Feeds[f].next_round_to_prune
      /\ config.pruning_window = Feeds[f].pruning_window
      /\ config.submission_count_bounds = bounds
  BY Zenon, <1>4, <1>5 DEF FeedConfig, update_future_rounds
<1>7. can_update_future_rounds(Feeds[f].oracle_count, bounds, delay)
  BY DEF update_future_rounds_call
<1>8. ProperBounds(bounds)
  <2>1. Feeds[f].oracle_count \in Nat
    BY <1>4 DEF FeedConfig
  <2> QED
    BY SMTT(30), <1>5, <1>7, <2>1 DEF ProperBounds, can_update_future_rounds, RoundId
<1>9. Feeds' = [Feeds EXCEPT ![f] = config]
  BY DEF update_future_rounds_call
<1> HIDE DEF config
<1>10. FeedsKept
  BY Zenon, <1>1, <1>3, <1>6, <1>8, <1>9, ConfigKeeps
<1> QED
  BY <1>2, <1>10 DEF OthersOK, adminVars

\* reduce_debt keeps the rounds of its feed.
LEMMA ReduceDebtStep ==
  ASSUME FeedsOK, OthersOK, NEW f \in FeedId, NEW amount \in Amounts,
         reduce_debt(f, amount)
  PROVE  FeedsKept /\ OthersOK'
<1> DEFINE to_reserve == Min2(amount, Feeds[f].debt)
           config == [Feeds[f] EXCEPT !.debt = @ - to_reserve]
<1>1. UNCHANGED <<Rounds, Details, FeedCounter>>
  BY DEF reduce_debt
<1>2. UNCHANGED <<block_number, adminVars, OracleStatuses, Requesters, Oracles>>
  BY DEF reduce_debt
<1>3. Feeds[f] # None
  BY DEF reduce_debt
<1>4. /\ Feeds[f] \in FeedConfig
      /\ ProperBounds(Feeds[f].submission_count_bounds)
  BY <1>3, LoadedFeed DEF WellFormed
<1>5. /\ Feeds[f].debt \in Nat /\ to_reserve \in Nat
      /\ Feeds[f].debt - to_reserve \in Nat
  BY <1>4, InputAssumption DEF FeedConfig, Min2
<1>6. /\ CanReserve(balances, Fund, to_reserve)
      /\ balances' = Reserve(balances, Fund, to_reserve)
      /\ Feeds' = [Feeds EXCEPT ![f] = config]
  BY DEF reduce_debt
<1>7. /\ config \in FeedConfig
      /\ config.latest_round = Feeds[f].latest_round
      /\ config.reporting_round = Feeds[f].reporting_round
      /\ config.next_round_to_prune = Feeds[f].next_round_to_prune
      /\ config.pruning_window = Feeds[f].pruning_window
      /\ config.submission_count_bounds = Feeds[f].submission_count_bounds
  <2> HIDE DEF to_reserve
  <2> QED
    BY <1>4, <1>5 DEF FeedConfig
<1> HIDE DEF config, to_reserve
<1>8. balances' \in [Accounts -> AccountData]
  BY <1>5, <1>6, ReserveTyped, ChainlinkFeedAssumption DEF OthersOK
<1>9. FeedsKept
  BY Zenon, <1>1, <1>3, <1>4, <1>6, <1>7, ConfigKeeps
<1> QED
  BY <1>2, <1>8, <1>9 DEF OthersOK, adminVars

\* change_oracles keeps the rounds of its feed.
LEMMA ChangeOraclesStep ==
  ASSUME FeedsOK, OthersOK, NEW who \in Signers, NEW f \in FeedId,
         NEW to_disable \in DisableLists, NEW to_add \in OracleLists,
         change_oracles(who, f, to_disable, to_add)
  PROVE  FeedsKept /\ OthersOK'
<1> DEFINE disabled == disable_oracles(Feeds[f], OracleStatuses[f], to_disable)
           left == Feeds[f].oracle_count - Len(to_disable)
           config == [Feeds[f] EXCEPT !.oracle_count = left + Len(to_add)]
<1>1. UNCHANGED <<Rounds, Details, FeedCounter>>
  BY DEF change_oracles
<1>2. UNCHANGED <<block_number, balances, adminVars, Requesters>>
  BY DEF change_oracles
<1>3. Feeds[f] # None
  BY SMTT(30) DEF change_oracles, OwnsFeed
<1>4. /\ Feeds[f] \in FeedConfig
      /\ ProperBounds(Feeds[f].submission_count_bounds)
  BY <1>3, LoadedFeed DEF WellFormed
<1>5. /\ to_disable \in Seq(Accounts) /\ to_add \in Seq(Accounts \X Accounts)
      /\ OracleStatuses[f] \in [Accounts -> Option(OracleStatus)]
      /\ Oracles \in [Accounts -> Option(OracleMeta)]
  BY InputAssumption DEF OthersOK
<1>6. can_disable_oracles(Feeds[f], OracleStatuses[f], to_disable)
  BY DEF change_oracles
<1>7. left + Len(to_add) \in Nat
  <2>1. Feeds[f].oracle_count \in Nat
    BY <1>4 DEF FeedConfig
  <2>2. Len(to_disable) \in Nat /\ Len(to_add) \in Nat
    BY <1>5
  <2> QED
    BY <1>6, <2>1, <2>2 DEF can_disable_oracles
<1>8. /\ config \in FeedConfig
      /\ config.latest_round = Feeds[f].latest_round
      /\ config.reporting_round = Feeds[f].reporting_round
      /\ config.next_round_to_prune = Feeds[f].next_round_to_prune
      /\ config.pruning_window = Feeds[f].pruning_window
      /\ config.submission_count_bounds = Feeds[f].submission_count_bounds
  <2> HIDE DEF left
  <2> QED
    BY SMTT(30), <1>4, <1>7 DEF FeedConfig
<1>9. /\ Feeds' = [Feeds EXCEPT ![f] = config]
      /\ OracleStatuses' = [OracleStatuses EXCEPT ![f] =
                              add_oracles(Feeds[f].reporting_round, disabled, to_add)]
      /\ Oracles' = TrackOracles(Oracles, to_add)
  BY DEF change_oracles
<1>10. disabled \in [Accounts -> Option(OracleStatus)]
  BY SMTT(30), <1>4, <1>5, <1>6, DisableTyped
<1> HIDE DEF config, left, disabled
<1>11. add_oracles(Feeds[f].reporting_round, disabled, to_add)
         \in [Accounts -> Option(OracleStatus)]
  <2>1. Feeds[f].reporting_round \in RoundId
    BY <1>4 DEF FeedConfig
  <2> QED
    BY SMTT(30), <1>5, <1>10, <2>1, AddTyped
<1>12. /\ OracleStatuses' \in [FeedId -> [Accounts -> Option(OracleStatus)]]
       /\ Oracles' \in [Accounts -> Option(OracleMeta)]
  BY Zenon, <1>5, <1>9, <1>11, TrackTyped DEF OthersOK
<1>13. FeedsKept
  BY Zenon, <1>1, <1>3, <1>4, <1>8, <1>9, ConfigKeeps
<1> QED
  BY <1>2, <1>12, <1>13 DEF OthersOK, adminVars
=============================================================================
