------------------------- MODULE ChainlinkFeedProofs -------------------------
(***************************************************************************)
(* Proofs about pallet-chainlink-feed for all accounts, feeds, rounds and  *)
(* arguments: the type invariant, and that every feed stays well-formed,   *)
(* from which the properties of its rounds follow.                         *)
(***************************************************************************)
EXTENDS FeedRoundProofs

\* The inductive invariant as the part about feeds and the rest.
LEMMA IInvSplit == IInv <=> FeedsOK /\ OthersOK
BY DEF IInv, TypeOK, FeedsOK, OthersOK

\* The genesis state satisfies the inductive invariant.
LEMMA InitIInv == Init => IInv
<1> SUFFICES ASSUME Init PROVE FeedsOK /\ OthersOK
  BY IInvSplit
<1>1. OthersOK
  <2>1. balances \in [Accounts -> AccountData]
    BY ChainlinkFeedAssumption DEF Init, AccountData
  <2>2. /\ OracleStatuses \in [FeedId -> [Accounts -> Option(OracleStatus)]]
        /\ Requesters \in [FeedId -> [Accounts -> Option(Requester)]]
        /\ Oracles \in [Accounts -> Option(OracleMeta)]
    BY DEF Init, Option
  <2>3. /\ block_number \in Nat /\ PalletAdmin \in Accounts
        /\ PendingPalletAdmin \in Option(Accounts) /\ FeedCreators \subseteq Accounts
    BY ChainlinkFeedAssumption DEF Init, Option
  <2> QED
    BY <2>1, <2>2, <2>3 DEF OthersOK
<1>2. /\ FeedCounter = 0
      /\ Feeds \in [FeedId -> Option(FeedConfig)]
      /\ Rounds \in [FeedId -> [RoundId -> Option(Round)]]
      /\ Details \in [FeedId -> [RoundId -> Option(RoundDetails)]]
  BY DEF Init, Option
<1>3. \A f \in FeedId : FeedInv(f)
  BY <1>2 DEF Init, FeedInv, FeedId
<1> QED
  BY <1>1, <1>2, <1>3, ChainlinkFeedAssumption DEF FeedsOK

\* Every step of the pallet keeps every feed well-formed.
LEMMA StepKeeps ==
  ASSUME IInv, Next
  PROVE  FeedsKept /\ OthersOK'
<1> FeedsOK /\ OthersOK
  BY IInvSplit
<1>1. CASE NextBlock
  <2>1. CASE Signers = {}
    <3>1. UNCHANGED <<feedVars, FeedCounter>>
      BY <1>1 DEF NextBlock
    <3> QED
      BY <1>1, <3>1, FeedsUnchanged DEF NextBlock, OthersOK, adminVars
  <2>2. CASE Signers # {}
    BY <1>1, <2>2, AdminStep
  <2> QED
    BY <2>1, <2>2
<1>2. ASSUME NEW who \in Signers, PalletCall(who) PROVE FeedsKept /\ OthersOK'
  <2>1. CASE \E payment \in Payments, timeout \in Timeouts, values \in ValueBounds,
                bounds \in CountBounds, delay \in RestartDelays, list \in OracleLists,
                window \in Windows, max_debt \in MaxDebts :
               create_feed(who, payment, timeout, values, bounds[1], delay, list, window,
                           max_debt)
    <3>1. \A bounds \in CountBounds : bounds[1] \in Nat
      BY InputAssumption
    <3> QED
      BY <2>1, <3>1, CreateFeedStep
  <2>2. CASE \E oracle \in Accounts, recipient \in Recipients, amount \in Amounts :
               withdraw_payment(who, oracle, recipient, amount)
    BY <2>2, WithdrawPaymentStep
  <2>3. CASE \E oracle \in Accounts :
               \/ \E new_admin \in Nominees : transfer_admin(who, oracle, new_admin)
               \/ accept_admin(who, oracle)
    BY <2>3, OracleAdminStep
  <2>4. CASE \E amount \in Amounts :
               \/ FundPallet(who, amount)
               \/ \E recipient \in Recipients : withdraw_funds(who, recipient, amount)
    BY <2>4, FundsStep
  <2>5. CASE \/ \E new_admin \in Nominees : transfer_pallet_admin(who, new_admin)
             \/ accept_pallet_admin(who)
             \/ \E creator \in Nominees : set_feed_creator(who, creator)
             \/ \E creator \in Nominees : remove_feed_creator(who, creator)
    BY <2>5, AdminStep
  <2> QED
    BY <1>2, <2>1, <2>2, <2>3, <2>4, <2>5 DEF PalletCall
<1>3. ASSUME NEW who \in Signers, NEW f \in FeedId, FeedCall(who, f)
      PROVE  FeedsKept /\ OthersOK'
  <2>1. CASE \/ \E new_owner \in Nominees : transfer_ownership(who, f, new_owner)
             \/ accept_ownership(who, f)
    BY <2>1, OwnershipStep
  <2>2. CASE \E window \in Windows \ {None} : set_pruning_window(who, f, window)
    BY <2>2, SetPruningWindowStep
  <2>3. CASE \E r \in RoundId, v \in Values : submit(who, f, r, v)
    BY <2>3, SubmitStep
  <2>4. CASE \E to_disable \in DisableLists, to_add \in OracleLists :
               change_oracles(who, f, to_disable, to_add)
    BY <2>4, ChangeOraclesStep
  <2>5. CASE \E payment \in Payments, bounds \in CountBounds, delay \in RestartDelays,
                timeout \in Timeouts :
               update_future_rounds_call(who, f, payment, bounds, delay, timeout)
    BY <2>5, UpdateFutureRoundsStep
  <2>6. CASE \/ \E requester \in Requesting, delay \in RequesterDelays :
                  set_requester(who, f, requester, delay)
             \/ \E requester \in Requesting : remove_requester(who, f, requester)
    BY <2>6, RequesterStep
  <2>7. CASE request_new_round(who, f)
    BY <2>7, RequestNewRoundStep
  <2> QED
    BY <1>3, <2>1, <2>2, <2>3, <2>4, <2>5, <2>6, <2>7 DEF FeedCall
<1>4. CASE \E f \in FeedId, amount \in Amounts : reduce_debt(f, amount)
  BY <1>4, ReduceDebtStep
<1> QED
  BY <1>1, <1>2, <1>3, <1>4 DEF Next

\* The inductive invariant holds in every reachable state.
THEOREM InductiveInvariant == Spec => []IInv
<1>1. IInv /\ [Next]_vars => IInv'
  <2> SUFFICES ASSUME IInv, [Next]_vars PROVE FeedsOK' /\ OthersOK'
    BY IInvSplit DEF IInv, TypeOK, FeedsOK, OthersOK
  <2>1. CASE Next
    BY <2>1, StepKeeps DEF FeedsKept
  <2>2. CASE UNCHANGED vars
    <3>1. UNCHANGED <<feedVars, FeedCounter>>
      BY <2>2 DEF vars
    <3>2. FeedsOK'
      BY <3>1, IInvSplit, FeedsUnchanged DEF FeedsKept
    <3>3. OthersOK'
      BY <2>2, IInvSplit DEF OthersOK, vars, adminVars
    <3> QED
      BY <3>2, <3>3
  <2> QED
    BY <2>1, <2>2
<1> QED
  BY InitIInv, <1>1, PTL DEF Spec

\* Every storage item holds a value of its Rust type, whatever the extrinsics,
\* their arguments and their order.
THEOREM TypeCorrectness == Spec => []TypeOK
<1>1. IInv => TypeOK
  BY DEF IInv
<1> QED
  BY <1>1, InductiveInvariant, PTL

\* latest_data never meets the missing round its debug assertion excludes.
THEOREM LatestDataIsAvailable == Spec => []LatestDataAvailable
<1>1. IInv => LatestDataAvailable
  <2> SUFFICES ASSUME IInv, NEW f \in FeedId, Feeds[f] # None
               PROVE  HasData(Rounds[f][Feeds[f].latest_round])
    BY DEF LatestDataAvailable, LiveFeeds
  <2> QED
    BY IInvSplit, LoadedFeed DEF WellFormed
<1> QED
  BY <1>1, InductiveInvariant, PTL

\* Pruning by submit and by set_pruning_window leaves no gap and no orphan.
THEOREM StorageStaysContiguous == Spec => []StorageIsContiguous
<1>1. IInv => StorageIsContiguous
  <2> SUFFICES ASSUME IInv, NEW f \in FeedId, Feeds[f] # None, NEW r \in RoundId
               PROVE  /\ Rounds[f][r] # None <=>
                           \/ r = 0
                           \/ /\ Feeds[f].next_round_to_prune <= r
                              /\ r <= Feeds[f].reporting_round
                      /\ Details[f][r] # None => r # 0 /\ Rounds[f][r] # None
    BY DEF StorageIsContiguous, LiveFeeds
  <2>1. WellStored(FeedAt(f), r)
    BY IInvSplit, LoadedFeed DEF WellFormed
  <2> QED
    BY <2>1, IInvSplit, LoadedFeed DEF WellStored
<1> QED
  BY <1>1, InductiveInvariant, PTL

\* A round without an answer is the reporting round and can still get one.
THEOREM UnansweredRoundStaysOpen == Spec => []UnansweredRoundIsOpen
<1>1. IInv => UnansweredRoundIsOpen
  <2> SUFFICES ASSUME IInv, NEW f \in FeedId, Feeds[f] # None, NEW r \in RoundId,
                      Rounds[f][r] # None, ~HasData(Rounds[f][r])
               PROVE  /\ r = Feeds[f].reporting_round
                      /\ Rounds[f][r].updated_at = None
                      /\ Details[f][r] # None
                      /\ Len(Details[f][r].submissions)
                           < Details[f][r].submission_count_bounds[1]
    BY DEF UnansweredRoundIsOpen, LiveFeeds
  <2>1. OpenOrAnswered(FeedAt(f), r)
    BY IInvSplit, LoadedFeed DEF WellFormed
  <2> QED
    BY <2>1, IInvSplit, LoadedFeed DEF OpenOrAnswered
<1> QED
  BY <1>1, InductiveInvariant, PTL

\* No extrinsic skips a round, takes back the latest one or un-prunes.
THEOREM RoundsOnlyMoveForward == Spec => RoundsMoveForward
<1>1. IInv /\ IInv' /\ [Next]_vars => [\A f \in LiveFeeds : MovesForward(f)]_vars
  <2> SUFFICES ASSUME IInv, IInv', Next, NEW f \in FeedId, Feeds[f] # None
               PROVE  MovesForward(f)
    BY DEF LiveFeeds
  <2>1. FeedsKept
    BY StepKeeps
  <2>2. Feeds'[f] # None /\ Advances(FeedAt(f), FeedAt(f)') /\ FeedsOK'
    BY <2>1 DEF FeedsKept
  <2>3. WellFormed(FeedAt(f))'
    BY <2>2 DEF FeedsOK, FeedInv
  <2>4. Feeds'[f].latest_round <= Feeds'[f].reporting_round
    BY <2>3 DEF WellFormed, FeedAt
  <2> QED
    BY <2>2, <2>4 DEF MovesForward, Advances, FeedAt
<1> QED
  BY <1>1, InductiveInvariant, PTL DEF Spec, RoundsMoveForward

\* A closed round is not opened again and keeps its data until it is pruned.
THEOREM ClosedRoundsStayFrozen == Spec => ClosedRoundsAreFrozen
<1>1. IInv /\ [Next]_vars =>
        [\A f \in LiveFeeds : \A r \in RoundId : StaysClosed(f, r)]_vars
  <2> SUFFICES ASSUME IInv, Next, NEW f \in FeedId, Feeds[f] # None, NEW r \in RoundId
               PROVE  StaysClosed(f, r)
    BY DEF LiveFeeds
  <2>1. Frozen(FeedAt(f), FeedAt(f)')
    BY StepKeeps DEF FeedsKept
  <2> QED
    BY <2>1 DEF Frozen, StaysClosed, FeedAt
<1> QED
  BY <1>1, InductiveInvariant, PTL DEF Spec, ClosedRoundsAreFrozen
=============================================================================
