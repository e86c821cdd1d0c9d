-------------------------- MODULE FeedRoundProofs ---------------------------
(***************************************************************************)
(* The extrinsics of pallet-chainlink-feed that write rounds keep every feed*)
(* well-formed and its closed rounds as they are.                          *)
(***************************************************************************)
EXTENDS FeedStorageProofs

\* set_pruning_window prunes without touching the latest data.
LEMMA SetPruningWindowStep ==
  ASSUME FeedsOK, OthersOK, NEW who \in Signers, NEW f \in FeedId,
         NEW window \in Windows \ {None}, set_pruning_window(who, f, window)
  PROVE  FeedsKept /\ OthersOK'
<1> DEFINE fs == FeedAt(f)
           resized == [fs EXCEPT !.config.pruning_window = window]
           config == [Feeds[f] EXCEPT !.pruning_window = window]
<1>1. UNCHANGED <<block_number, balances, adminVars, FeedCounter, OracleStatuses,
                  Requesters, Oracles>>
  BY DEF set_pruning_window
<1>2. Feeds[f] # None /\ window > 0
  BY DEF set_pruning_window, OwnsFeed
<1>3. /\ fs \in FeedState /\ WellFormed(fs) /\ Feeds[f] \in FeedConfig
      /\ fs.config = Feeds[f] /\ Feeds[f].reporting_round <= MaxRound
  BY <1>2, LoadedFeed
<1>4. window \in RoundId /\ 1 <= window
  BY <1>2, InputAssumption DEF Option, RoundId
<1>5. /\ config \in FeedConfig
      /\ config.latest_round = Feeds[f].latest_round
      /\ config.reporting_round = Feeds[f].reporting_round
      /\ config.next_round_to_prune = Feeds[f].next_round_to_prune
      /\ config.pruning_window = window
      /\ config.submission_count_bounds = Feeds[f].submission_count_bounds
  BY <1>3, <1>4 DEF FeedConfig
<1>6. resized.config = config /\ resized.rounds = fs.rounds /\ resized.details = fs.details
  BY <1>3 DEF FeedState
<1>7. resized \in FeedState
  BY <1>3, <1>5 DEF FeedState
<1>8. SyncToStorage(f, PruneAll(resized))
  BY DEF set_pruning_window
<1> HIDE DEF fs, config, resized
<1>9. WellFormed(resized)
  <2>1. \A r \in RoundId : WellStored(resized, r) /\ OpenOrAnswered(resized, r)
    BY <1>3, <1>5, <1>6 DEF WellFormed, WellStored, OpenOrAnswered
  <2> QED
    BY <1>3, <1>4, <1>5, <1>6, <2>1 DEF WellFormed
<1>10. /\ PruneAll(resized) \in FeedState /\ WellFormed(PruneAll(resized))
       /\ Advances(resized, PruneAll(resized)) /\ Frozen(resized, PruneAll(resized))
  BY <1>7, <1>9, PruneAllKeeps
<1>11. Advances(fs, PruneAll(resized)) /\ Frozen(fs, PruneAll(resized))
  BY <1>3, <1>5, <1>6, <1>10 DEF Advances, Frozen
<1>12. PruneAll(resized).config.reporting_round = Feeds[f].reporting_round
  <2>1. ASSUME NEW upto
        PROVE  PruneTo(resized, upto).config.reporting_round = Feeds[f].reporting_round
    BY Zenon, <1>5, <1>6 DEF PruneTo, FeedConfig
  <2> QED
    BY <1>5, <1>6, <2>1 DEF PruneAll
<1>13. FeedsKept
  <2>1. PruneAll(resized).config.reporting_round <= MaxRound
    BY <1>3, <1>12
  <2>2. FeedCounter' = FeedCounter
    BY <1>1
  <2> QED
    BY <1>2, <1>8, <1>10, <1>11, <2>1, <2>2, SyncKeeps DEF fs
<1> QED
  BY <1>1, <1>13 DEF OthersOK, adminVars

\* request_new_round starts a round and closes a timed-out one.
LEMMA RequestNewRoundStep ==
  ASSUME FeedsOK, OthersOK, NEW who \in Signers, NEW f \in FeedId,
         request_new_round(who, f)
  PROVE  FeedsKept /\ OthersOK'
<1> DEFINE fs == FeedAt(f)
           new == Feeds[f].reporting_round + 1
           g == initialize_round(fs, new, block_number)
<1>1. UNCHANGED <<block_number, balances, adminVars, FeedCounter, OracleStatuses, Oracles>>
  BY DEF request_new_round
<1>2. Feeds[f] # None /\ Requesters[f][who] # None /\ new <= MaxRound
  BY DEF request_new_round
<1>3. /\ fs \in FeedState /\ WellFormed(fs) /\ fs.config = Feeds[f]
      /\ Feeds[f] \in FeedConfig /\ Feeds[f].reporting_round < RoundIdMax
  BY <1>2, LoadedFeed
<1>4. new \in RoundId
  <2>1. Feeds[f].reporting_round \in RoundId
    BY <1>3 DEF FeedConfig
  <2> QED
    BY <1>3, <2>1, RoundIdMaxAssumption DEF RoundId
<1>5. can_request_new_round(fs, block_number)
  BY DEF request_new_round
<1>6. /\ Requesters' = [Requesters EXCEPT ![f][who].last_started_round = new]
      /\ SyncToStorage(f, g)
  BY DEF request_new_round
<1>7. Requesters' \in [FeedId -> [Accounts -> Option(Requester)]]
  <2> DEFINE q == [Requesters[f][who] EXCEPT !.last_started_round = new]
  <2>1. who \in Accounts
    BY DEF Signers
  <2>2. Requesters[f][who] \in Requester
    BY <1>2, <2>1 DEF OthersOK, Option
  <2>3. q \in Requester
    BY <1>4, <2>2 DEF Requester, Option
  <2>4. Requesters' = [Requesters EXCEPT ![f][who] = q]
    BY <1>6
  <2> HIDE DEF q
  <2> QED
    BY <2>1, <2>3, <2>4 DEF OthersOK, Option
<1>8. block_number \in Nat
  BY DEF OthersOK
<1>9. is_supersedable(fs, fs.config.reporting_round, block_number)
      /\ can_initialize_round(fs, new, block_number)
  BY <1>3, <1>5 DEF can_request_new_round
<1> HIDE DEF fs, g, new
<1>10. new = fs.config.reporting_round + 1
  BY <1>3 DEF new
<1>11. /\ g \in FeedState /\ WellFormed(g) /\ Advances(fs, g) /\ Frozen(fs, g)
       /\ g.config = [fs.config EXCEPT !.reporting_round = new]
  BY <1>3, <1>4, <1>8, <1>9, <1>10, InitializeKeeps DEF g
<1>12. g.config.reporting_round <= MaxRound
  BY <1>2, <1>3, <1>11 DEF FeedConfig
<1>13. FeedCounter' = FeedCounter
  BY <1>1
<1>14. FeedsKept
  BY Zenon, <1>2, <1>6, <1>11, <1>12, <1>13, SyncKeeps DEF fs
<1> QED
  BY <1>1, <1>7, <1>14 DEF OthersOK, adminVars

\* The feed that submit records in, once a due round is started.
LEMMA StartKeeps ==
  ASSUME NEW fs \in FeedState, WellFormed(fs), NEW now \in Nat, NEW o,
         NEW r \in RoundId, fs.config.reporting_round < RoundIdMax,
         ensure_valid_round(fs, o, r, now),
         Starts(fs, o, r) => can_initialize_round(fs, r, now)
  PROVE  StartIfDue(fs, o, r, now) \in FeedState
<1> DEFINE rep == fs.config.reporting_round
<1>1. rep \in RoundId
  BY DEF FeedState, FeedConfig
<1>2. CASE ~Starts(fs, o, r)
  BY <1>2 DEF StartIfDue
<1>3. CASE Starts(fs, o, r)
  <2>1. r = rep + 1
    BY <1>1, <1>3 DEF Starts, Succ
  <2>2. Pred(r) = rep
    BY <1>1, <2>1 DEF Pred, RoundId
  <2>3. is_supersedable(fs, rep, now)
    <3>1. CASE r = 1
      BY <1>1, <2>1, <3>1 DEF is_supersedable, RoundId
    <3>2. CASE is_supersedable(fs, Pred(r), now)
      BY <2>2, <3>2
    <3> QED
      BY <3>1, <3>2 DEF ensure_valid_round
  <2>4. initialize_round(fs, r, now) \in FeedState
    BY Zenon, <1>3, <2>1, <2>3, InitializeKeeps
  <2> QED
    BY <1>3, <2>4 DEF StartIfDue
<1> QED
  BY <1>2, <1>3

\* Booking a payment as debt changes nothing that the rounds depend on.
LEMMA DebtKeeps ==
  ASSUME NEW fs \in FeedState, NEW g \in FeedState, WellFormed(g),
         Advances(fs, g), Frozen(fs, g), NEW payment \in Nat
  PROVE  LET h == [g EXCEPT !.config.debt = @ + payment]
         IN /\ h \in FeedState
            /\ WellFormed(h)
            /\ Advances(fs, h)
            /\ Frozen(fs, h)
            /\ h.config.reporting_round = g.config.reporting_round
<1> DEFINE h == [g EXCEPT !.config.debt = @ + payment]
           config == [g.config EXCEPT !.debt = g.config.debt + payment]
<1>1. g.config \in FeedConfig /\ g.config.debt \in Nat
  BY DEF FeedState, FeedConfig
<1>2. /\ config \in FeedConfig
      /\ config.latest_round = g.config.latest_round
      /\ config.reporting_round = g.config.reporting_round
      /\ config.next_round_to_prune = g.config.next_round_to_prune
      /\ config.pruning_window = g.config.pruning_window
      /\ config.submission_count_bounds = g.config.submission_count_bounds
  BY <1>1 DEF FeedConfig
<1>3. h.config = config /\ h.rounds = g.rounds /\ h.details = g.details
  BY DEF FeedState
<1>4. h \in FeedState
  BY <1>2 DEF FeedState
<1> HIDE DEF h, config
<1>5. \A r \in RoundId : WellStored(h, r) /\ OpenOrAnswered(h, r)
  BY <1>2, <1>3 DEF WellFormed, WellStored, OpenOrAnswered
<1>6. WellFormed(h)
  BY <1>2, <1>3, <1>5 DEF WellFormed
<1>7. Advances(fs, h) /\ Frozen(fs, h)
  BY <1>2, <1>3 DEF Advances, Frozen
<1> QED
  BY <1>2, <1>3, <1>4, <1>6, <1>7 DEF h

\* submit starts, answers, prunes and closes rounds of its feed only.
LEMMA SubmitStep ==
  ASSUME FeedsOK, OthersOK, NEW oracle \in Signers, NEW f \in FeedId,
         NEW r \in RoundId, NEW v \in Values, submit(oracle, f, r, v)
  PROVE  FeedsKept /\ OthersOK'
<1> DEFINE status == OracleStatuses[f][oracle]
           fs == FeedAt(f)
           started == StartIfDue(fs, status, r, block_number)
           payment == started.details[r].payment
           g == RecordSubmission(started, r, v, block_number)
           indebted == [g EXCEPT !.config.debt = @ + payment]
           payable == CanReserve(balances, Fund, payment)
<1>1. UNCHANGED <<block_number, adminVars, FeedCounter, Requesters>>
  BY DEF submit
<1>2. Feeds[f] # None /\ status # None /\ Oracles[oracle] # None
  BY DEF submit
<1>3. /\ ensure_valid_round(fs, status, r, block_number)
      /\ Starts(fs, status, r) => r <= MaxRound /\ can_initialize_round(fs, r, block_number)
      /\ can_record_submission(started, r)
  BY SMTT(30) DEF submit
<1>4. \/ payable /\ balances' = Reserve(balances, Fund, payment) /\ SyncToStorage(f, g)
      \/ balances' = balances /\ SyncToStorage(f, indebted)
  BY DEF submit
<1>5. OracleStatuses' = [OracleStatuses EXCEPT ![f][oracle] =
          [status EXCEPT !.last_reported_round = r,
                         !.last_started_round = IF Starts(fs, status, r) THEN r ELSE @]]
  BY DEF submit
<1>6. Oracles' = [Oracles EXCEPT ![oracle].withdrawable = @ + payment]
  BY DEF submit
<1>7. /\ fs \in FeedState /\ WellFormed(fs) /\ fs.config = Feeds[f]
      /\ Feeds[f].reporting_round < RoundIdMax /\ Feeds[f].reporting_round <= MaxRound
  BY <1>2, LoadedFeed
<1>8. block_number \in Nat /\ v \in Value /\ oracle \in Accounts
  BY InputAssumption DEF OthersOK, Signers
<1>9. status \in OracleStatus
  BY <1>2, <1>8 DEF OthersOK, Option
<1> HIDE DEF status, fs
<1>10. started \in FeedState
  BY <1>3, <1>7, <1>8, StartKeeps
<1>11. payment \in Nat
  <2> HIDE DEF started
  <2>1. started.details[r] \in RoundDetails
    BY <1>3, <1>10 DEF can_record_submission, FeedState, Option
  <2> QED
    BY <2>1 DEF RoundDetails
<1>12. /\ g \in FeedState /\ WellFormed(g) /\ Advances(fs, g) /\ Frozen(fs, g)
       /\ \/ g.config.reporting_round = fs.config.reporting_round
          \/ Starts(fs, status, r) /\ g.config.reporting_round = r
  <2>1. /\ fs.config.reporting_round < RoundIdMax
        /\ Starts(fs, status, r) => can_initialize_round(fs, r, block_number)
        /\ can_record_submission(StartIfDue(fs, status, r, block_number), r)
    BY <1>3, <1>7
  <2>2. /\ ensure_valid_round(fs, status, r, block_number)
        /\ fs \in FeedState /\ WellFormed(fs)
    BY <1>3, <1>7
  <2>3. g = RecordSubmission(StartIfDue(fs, status, r, block_number), r, v, block_number)
    OBVIOUS
  <2> HIDE DEF started, payment, g, indebted, payable
  <2>4. Accepted(fs, status, r, v, block_number, g)
    BY <1>8, <2>1, <2>2, <2>3 DEF Accepted
  <2> QED
    BY <2>4, SubmitKeeps
<1> HIDE DEF started, payment, g
<1>13. g.config.reporting_round <= MaxRound
  BY <1>3, <1>7, <1>12
<1>14. /\ indebted \in FeedState /\ WellFormed(indebted)
       /\ Advances(fs, indebted) /\ Frozen(fs, indebted)
       /\ indebted.config.reporting_round <= MaxRound
  BY <1>7, <1>11, <1>12, <1>13, DebtKeeps
<1> HIDE DEF indebted
<1>15. FeedsKept
  <2>1. FeedCounter' = FeedCounter
    BY <1>1
  <2>2. CASE SyncToStorage(f, g)
    BY <1>2, <1>12, <1>13, <2>1, <2>2, SyncKeeps DEF fs
  <2>3. CASE SyncToStorage(f, indebted)
    BY <1>2, <1>14, <2>1, <2>3, SyncKeeps DEF fs
  <2> QED
    BY <1>4, <2>2, <2>3
<1>16. balances' \in [Accounts -> AccountData]
  BY <1>4, <1>11, ReserveTyped, ChainlinkFeedAssumption DEF OthersOK
<1>17. OracleStatuses' \in [FeedId -> [Accounts -> Option(OracleStatus)]]
  <2> DEFINE last == IF Starts(fs, status, r) THEN r ELSE status.last_started_round
             new == [status EXCEPT !.last_reported_round = r, !.last_started_round = last]
  <2>1. last \in Option(RoundId)
    BY <1>9 DEF OracleStatus, Option
  <2>2. OracleStatuses' = [OracleStatuses EXCEPT ![f][oracle] = new]
    BY <1>5
  <2> HIDE DEF last
  <2>3. new \in OracleStatus
    BY Zenon, <1>9, <2>1 DEF OracleStatus, Option
  <2> HIDE DEF new
  <2> QED
    BY <1>8, <2>2, <2>3 DEF OthersOK, Option
<1>18. Oracles' \in [Accounts -> Option(OracleMeta)]
  <2> DEFINE meta == [Oracles[oracle] EXCEPT !.withdrawable = @ + payment]
  <2>1. Oracles[oracle] \in OracleMeta
    BY <1>2, <1>8 DEF OthersOK, Option
  <2>2. Oracles[oracle].withdrawable + payment \in Nat
    BY <1>11, <2>1 DEF OracleMeta
  <2>3. meta \in OracleMeta
    BY <2>1, <2>2 DEF OracleMeta
  <2>4. Oracles' = [Oracles EXCEPT ![oracle] = meta]
    BY <1>6
  <2> HIDE DEF meta
  <2> QED
    BY Zenon, <2>3, <2>4 DEF OthersOK, Option
<1> QED
  BY SMTT(30), <1>1, <1>15, <1>16, <1>17, <1>18 DEF OthersOK, adminVars

\* A new feed is well-formed: round 0 has data and nothing else is stored.
LEMMA CreateFeedStep ==
  ASSUME FeedsOK, OthersOK, NEW who \in Signers,
         NEW payment \in Payments, NEW timeout \in Timeouts,
         NEW values \in ValueBounds, NEW min \in Nat,
         NEW delay \in RestartDelays, NEW list \in OracleLists,
         NEW window \in Windows, NEW max_debt \in MaxDebts,
         create_feed(who, payment, timeout, values, min, delay, list, window, max_debt)
  PROVE  FeedsKept /\ OthersOK'
<1>0. PICK f : f = FeedCounter
  OBVIOUS
<1> DEFINE bounds == <<min, Len(list)>>
           pruning == IF window = None THEN RoundIdMax ELSE window
           config == [owner |-> who, pending_owner |-> None,
                      submission_value_bounds |-> values,
                      submission_count_bounds |-> bounds,
                      payment |-> payment, timeout |-> timeout, restart_delay |-> delay,
                      reporting_round |-> 0, latest_round |-> 0,
                      first_valid_round |-> None, oracle_count |-> Len(list),
                      pruning_window |-> pruning,
                      next_round_to_prune |-> 1, debt |-> 0, max_debt |-> max_debt]
           round0 == [started_at |-> block_number, answer |-> 0,
                      updated_at |-> block_number, answered_in_round |-> 0]
           rounds == [Rounds[f] EXCEPT ![0] = round0]
           g == [config |-> config, rounds |-> rounds, details |-> Details[f]]
<1>a. /\ window # 0 /\ f < FeedLimit
      /\ can_update_future_rounds(Len(list), bounds, delay)
      /\ FeedCounter' = f + 1
  BY <1>0 DEF create_feed
<1>b. SyncToStorage(f, g)
  BY <1>0, Zenon DEF create_feed
<1>1. /\ OracleStatuses' = [OracleStatuses EXCEPT ![f] = add_oracles(0, @, list)]
      /\ Oracles' = TrackOracles(Oracles, list)
      /\ UNCHANGED <<block_number, balances, adminVars, Requesters>>
  BY <1>0 DEF create_feed
<1>2. f \in FeedId /\ f \in Nat /\ 0 \in RoundId /\ 1 \in RoundId
  BY <1>0, <1>a, RoundIdMaxAssumption, ChainlinkFeedAssumption DEF FeedsOK, FeedId, RoundId
<1>3. /\ payment \in Nat /\ timeout \in Nat /\ values \in Value \X Value
      /\ delay \in RoundId /\ list \in Seq(Accounts \X Accounts)
      /\ window \in Option(RoundId) /\ max_debt \in Option(Nat)
      /\ who \in Accounts
  BY InputAssumption DEF Signers
<1>4. pruning \in RoundId /\ 1 <= pruning
  <2>1. window # 0
    BY <1>a
  <2>2. CASE window = None
    BY <2>2, RoundIdMaxAssumption DEF RoundId
  <2>3. CASE window \in RoundId /\ window # None
    BY <2>1, <2>3 DEF RoundId
  <2> QED
    BY <1>3, <2>2, <2>3 DEF Option
<1>5. Len(list) \in Nat /\ bounds \in Nat \X Nat /\ ProperBounds(bounds)
  <2>1. Len(list) \in Nat /\ delay \in Nat
    BY <1>3 DEF RoundId
  <2>2. bounds[1] = min /\ bounds[2] = Len(list) /\ bounds \in Nat \X Nat
    BY <2>1
  <2>3. /\ bounds[1] <= bounds[2] /\ Len(list) > delay
        /\ Len(list) > 0 => bounds[1] > 0
    BY SMTT(30), <1>a, <2>1, <2>2 DEF can_update_future_rounds
  <2> HIDE DEF bounds
  <2> QED
    BY <2>1, <2>2, <2>3 DEF ProperBounds
<1> HIDE DEF bounds, pruning
<1>6. /\ config \in FeedConfig
      /\ config.submission_count_bounds = bounds /\ config.pruning_window = pruning
      /\ config.reporting_round = 0 /\ config.latest_round = 0
      /\ config.next_round_to_prune = 1
  BY <1>2, <1>3, <1>4, <1>5 DEF FeedConfig, Option
<1>7. round0 \in Round /\ HasData(round0)
  <2>1. block_number \in Nat /\ 0 \in Value
    BY ValueMaxAssumption DEF OthersOK, Value
  <2>2. round0 \in Round
    BY <1>2, <2>1 DEF Round, Option
  <2>3. round0.updated_at = block_number /\ round0.answer = 0
        /\ round0.answered_in_round = 0
    OBVIOUS
  <2> HIDE DEF round0
  <2>4. round0 # None /\ block_number # None /\ 0 # None
    BY <2>1, <2>2, NoneAssumption
  <2> QED
    BY <2>2, <2>3, <2>4 DEF HasData
<1> HIDE DEF config, round0
<1>8. /\ Rounds[f] \in [RoundId -> Option(Round)]
      /\ Details[f] \in [RoundId -> Option(RoundDetails)]
      /\ \A r \in RoundId : Rounds[f][r] = None /\ Details[f][r] = None
      /\ Feeds[f] = None
  <2>1. FeedInv(f)
    BY <1>2 DEF FeedsOK
  <2> QED
    BY <1>0, <1>2, <2>1 DEF FeedsOK, FeedInv
<1>9. /\ rounds \in [RoundId -> Option(Round)]
      /\ rounds[0] = round0
      /\ \A r \in RoundId \ {0} : rounds[r] = None
  BY <1>2, <1>7, <1>8 DEF Option
<1> HIDE DEF rounds
<1>10. g.config = config /\ g.rounds = rounds /\ g.details = Details[f]
  OBVIOUS
<1>11. g \in FeedState
  BY <1>6, <1>8, <1>9 DEF FeedState
<1>12. WellFormed(g)
  <2> HIDE DEF g
  <2>1. ASSUME NEW r \in RoundId PROVE WellStored(g, r) /\ OpenOrAnswered(g, r)
    <3>1. g.details[r] = None
      BY <1>8, <1>10
    <3>2. CASE r = 0
      BY SMTT(30), <1>7, <1>9, <1>10, <3>1, <3>2, NoneAssumption DEF WellStored, OpenOrAnswered
    <3>3. CASE r # 0
      <4>1. ~(1 <= r /\ r <= 0)
        BY DEF RoundId
      <4> QED
        BY <1>6, <1>9, <1>10, <3>1, <3>3, <4>1 DEF WellStored, OpenOrAnswered
    <3> QED
      BY <3>2, <3>3
  <2>2. HasData(g.rounds[g.config.latest_round])
    BY <1>6, <1>7, <1>9, <1>10
  <2>3. /\ g.config.latest_round = 0 /\ g.config.reporting_round = 0
        /\ g.config.next_round_to_prune = 1
        /\ g.config.pruning_window = pruning
        /\ g.config.submission_count_bounds = bounds
    BY <1>6, <1>10
  <2>4. ProperBounds(g.config.submission_count_bounds)
    BY <1>5, <2>3
  <2>5. /\ g.config.latest_round <= g.config.reporting_round
        /\ 1 <= g.config.next_round_to_prune /\ g.config.next_round_to_prune = 1
        /\ 1 <= g.config.pruning_window
    BY <1>4, <2>3
  <2> QED
    BY <2>1, <2>2, <2>4, <2>5, Zenon DEF WellFormed
<1>13. /\ Feeds' = [Feeds EXCEPT ![f] = config]
       /\ Rounds' = [Rounds EXCEPT ![f] = rounds]
       /\ Details' = [Details EXCEPT ![f] = Details[f]]
  BY <1>b, <1>10 DEF SyncToStorage
<1> HIDE DEF g
<1>14. /\ Feeds'[f] = config /\ Rounds'[f] = rounds /\ Details'[f] = Details[f]
       /\ \A h \in FeedId \ {f} : /\ Feeds'[h] = Feeds[h] /\ Rounds'[h] = Rounds[h]
                                  /\ Details'[h] = Details[h]
  BY <1>2, <1>13 DEF FeedsOK
<1>15. FeedAt(f)' = g
  BY <1>14 DEF FeedAt, g
<1>16. \A h \in FeedId \ {f} : FeedAt(h)' = FeedAt(h)
  BY <1>14 DEF FeedAt
<1>17. ASSUME NEW h \in FeedId PROVE FeedInv(h)'
  <2>1. CASE h = f
    <3>1. h < FeedCounter'
      BY <1>a, <1>2, <2>1
    <3>2. config # None /\ config.reporting_round <= MaxRound
      <4>1. MaxRound \in Nat
        BY ChainlinkFeedAssumption DEF RoundId
      <4>2. config # None
        BY SMTT(30), <1>6, NoneAssumption
      <4> QED
        BY <1>6, <4>1, <4>2
    <3> QED
      BY <1>12, <1>14, <1>15, <2>1, <3>1, <3>2 DEF FeedInv
  <2>2. CASE h # f
    <3>1. h < FeedCounter' <=> h < FeedCounter
      BY <1>0, <1>a, <1>2, <2>2 DEF FeedId
    <3>2. FeedInv(h)
      BY DEF FeedsOK
    <3> QED
      BY <1>14, <1>16, <2>2, <3>1, <3>2 DEF FeedInv
  <2> QED
    BY SMTT(30), <2>1, <2>2
<1>18. FeedsOK'
  <2>1. FeedCounter' \in 0 .. FeedLimit
    BY <1>a, <1>2, ChainlinkFeedAssumption
  <2>2. /\ Feeds' \in [FeedId -> Option(FeedConfig)]
        /\ Rounds' \in [FeedId -> [RoundId -> Option(Round)]]
        /\ Details' \in [FeedId -> [RoundId -> Option(RoundDetails)]]
    BY Zenon, <1>6, <1>8, <1>9, <1>13 DEF FeedsOK, Option
  <2> QED
    BY <1>17, <2>1, <2>2 DEF FeedsOK
<1>19. ASSUME NEW h \in FeedId, Feeds[h] # None
       PROVE  /\ Feeds'[h] # None
              /\ Advances(FeedAt(h), FeedAt(h)')
              /\ Frozen(FeedAt(h), FeedAt(h)')
  <2>1. h # f
    BY <1>8, <1>19
  <2> QED
    <3>1. Feeds'[h] = Feeds[h] /\ FeedAt(h)' = FeedAt(h)
      BY SMTT(30), <1>14, <1>16, <2>1
    <3>2. FeedAt(h) \in FeedState
      BY <1>19, LoadedFeed
    <3>3. Advances(FeedAt(h), FeedAt(h)) /\ Frozen(FeedAt(h), FeedAt(h))
      BY SMTT(30), <3>2, NoStepOnFeeds
    <3> QED
      BY SMTT(30), <1>19, <3>1, <3>3
<1>20. OthersOK'
  <2>1. OracleStatuses[f] \in [Accounts -> Option(OracleStatus)]
    BY <1>2 DEF OthersOK
  <2>2. add_oracles(0, OracleStatuses[f], list) \in [Accounts -> Option(OracleStatus)]
    BY <1>2, <1>3, <2>1, AddTyped
  <2>3. OracleStatuses' \in [FeedId -> [Accounts -> Option(OracleStatus)]]
    BY Zenon, <1>1, <2>2 DEF OthersOK
  <2>4. Oracles' \in [Accounts -> Option(OracleMeta)]
    BY <1>1, <1>3, TrackTyped DEF OthersOK
  <2> QED
    BY <1>1, <2>3, <2>4 DEF OthersOK, adminVars
<1> QED
  BY <1>18, <1>19, <1>20 DEF FeedsKept
=============================================================================
