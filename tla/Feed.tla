-------------------------------- MODULE Feed --------------------------------
(***************************************************************************)
(* One feed of pallet-chainlink-feed: the structures the pallet keeps for  *)
(* it and the proxy `Feed' (lib.rs) through which the extrinsics read and  *)
(* change it.                                                              *)
(*                                                                         *)
(* A feed is a record                                                      *)
(*    fs = [config, rounds, details]                                       *)
(* of its entry in Feeds and its rows in Rounds and Details.  A storage    *)
(* map is a total function whose value is None where nothing is stored.    *)
(* Every operator is one method of the proxy: a check is a predicate, a    *)
(* mutator gives the next fs, and can_... is the condition under which a   *)
(* fallible mutator returns Ok.  `now' is the block number.                *)
(***************************************************************************)
EXTENDS Integers, Sequences, FiniteSets, Median

CONSTANTS
  Accounts,           \* account ids
  None,               \* the absent Option, the empty storage slot
  RoundIdMax          \* RoundId::MAX

ASSUME RoundIdMaxAssumption == RoundIdMax \in Nat /\ RoundIdMax > 1
ASSUME AccountsAssumption == IsFiniteSet(Accounts)

RoundId == 0 .. RoundIdMax

Option(S) == S \cup {None}

-----------------------------------------------------------------------------
(***************************************************************************)
(* The stored structures.  Left out: decimals, description and             *)
(* latest_submission, which no control depends on.                         *)
(***************************************************************************)
Round == [started_at : Nat, answer : Option(Value),
          updated_at : Option(Nat), answered_in_round : Option(RoundId)]

RoundDetails == [submissions : Seq(Value), submission_count_bounds : Nat \X Nat,
                 payment : Nat, timeout : Nat]

OracleStatus == [starting_round : RoundId, ending_round : Option(RoundId),
                 last_reported_round : Option(RoundId),
                 last_started_round : Option(RoundId)]

FeedConfig == [owner : Accounts, pending_owner : Option(Accounts),
               submission_value_bounds : Value \X Value,
               submission_count_bounds : Nat \X Nat,
               payment : Nat, timeout : Nat, restart_delay : RoundId,
               reporting_round : RoundId, latest_round : RoundId,
               first_valid_round : Option(RoundId), oracle_count : Nat,
               pruning_window : RoundId, next_round_to_prune : RoundId,
               debt : Nat, max_debt : Option(Nat)]

ASSUME NoneAssumption ==
  /\ None \notin Nat
  /\ None \notin Accounts
  /\ None \notin Round
  /\ None \notin RoundDetails
  /\ None \notin OracleStatus
  /\ None \notin FeedConfig

\* Round::new and OracleStatus::new
NewRound(now) == [started_at |-> now, answer |-> None,
                  updated_at |-> None, answered_in_round |-> None]

NewOracleStatus(r) == [starting_round |-> r, ending_round |-> None,
                       last_reported_round |-> None, last_started_round |-> None]

\* RoundData::try_from succeeds: all the data of the round is there.
HasData(round) ==
  /\ round # None
  /\ round.answered_in_round # None
  /\ round.answer # None
  /\ round.updated_at # None

-----------------------------------------------------------------------------
\* Arithmetic of RoundId.
Succ(r) == IF r < RoundIdMax THEN r + 1 ELSE r     \* saturating_add(1)
Pred(r) == IF r > 0 THEN r - 1 ELSE 0              \* saturating_sub(1)

(***************************************************************************)
(* Checks                                                                  *)
(***************************************************************************)
is_timed_out(fs, r, now) ==
  /\ fs.rounds[r] # None
  /\ fs.details[r] # None
  /\ fs.rounds[r].started_at > 0
  /\ fs.details[r].timeout > 0
  /\ fs.rounds[r].started_at + fs.details[r].timeout < now

was_updated(fs, r) == fs.rounds[r] # None /\ fs.rounds[r].updated_at # None

is_supersedable(fs, r, now) == r = 0 \/ was_updated(fs, r) \/ is_timed_out(fs, r, now)

\* Mutants: an oracle may report again on its last round; the ending round of
\* a disabled oracle is ignored.
ensure_valid_round_again(fs, o, r, now) ==
  /\ o.starting_round <= r
  /\ o.ending_round # None => o.ending_round >= r
  /\ o.last_reported_round # None => o.last_reported_round <= r
  /\ r \in {fs.config.reporting_round, Succ(fs.config.reporting_round)}
  /\ r = 1 \/ is_supersedable(fs, Pred(r), now)

ensure_valid_round(fs, o, r, now) ==
  LET reporting == fs.config.reporting_round
  IN /\ o.starting_round <= r
     /\ o.ending_round # None => o.ending_round >= r
     /\ o.last_reported_round # None => o.last_reported_round < r
     /\ \/ r = reporting
        \/ r = Succ(reporting)
        \/ Succ(r) = reporting /\ ~was_updated(fs, reporting)
     /\ r = 1 \/ is_supersedable(fs, Pred(r), now)

-----------------------------------------------------------------------------
(***************************************************************************)
(* Rounds: pruning, starting, closing                                      *)
(***************************************************************************)
current_window(config) ==
  IF config.latest_round > config.next_round_to_prune
  THEN config.latest_round - config.next_round_to_prune
  ELSE 0

\* Mutant: pruning forgets the details.
PruneTo_rounds_only(fs, upto) ==
  [config  |-> [fs.config EXCEPT !.next_round_to_prune = upto,
                                 !.first_valid_round = upto],
   rounds  |-> [r \in RoundId |->
                  IF fs.config.next_round_to_prune <= r /\ r < upto
                  THEN None ELSE fs.rounds[r]],
   details |-> fs.details]

\* Remove the rounds from next_round_to_prune up to, but not including, upto.
PruneTo(fs, upto) ==
  LET pruned(r) == fs.config.next_round_to_prune <= r /\ r < upto
  IN [config  |-> [fs.config EXCEPT !.next_round_to_prune = upto,
                                    !.first_valid_round = upto],
      rounds  |-> [r \in RoundId |-> IF pruned(r) THEN None ELSE fs.rounds[r]],
      details |-> [r \in RoundId |-> IF pruned(r) THEN None ELSE fs.details[r]]]

\* Mutant: the window is one round too small.
prune_oldest_early(fs) ==
  IF current_window(fs.config) + 1 >= fs.config.pruning_window
  THEN PruneTo(fs, fs.config.next_round_to_prune + 1)
  ELSE fs

prune_oldest(fs) ==
  IF current_window(fs.config) >= fs.config.pruning_window
  THEN PruneTo(fs, fs.config.next_round_to_prune + 1)
  ELSE fs

\* prune_oldest repeated until it returns false, which it does as soon as
\* fewer than pruning_window rounds lie between the next one and the latest.
PruneAll(fs) ==
  IF current_window(fs.config) >= fs.config.pruning_window
  THEN PruneTo(fs, fs.config.latest_round - fs.config.pruning_window + 1)
  ELSE fs

can_close_timed_out_round(fs, r) == fs.rounds[Pred(r)] # None /\ fs.rounds[r] # None

\* Mutants: answered_in_round is not carried over; it names the previous round
\* instead of the round that the previous one carries its answer from.
close_timed_out_round_blank(fs, r, now) ==
  [config  |-> fs.config,
   rounds  |-> [fs.rounds EXCEPT ![r] = [@ EXCEPT !.answer = fs.rounds[Pred(r)].answer,
                                                  !.updated_at = now,
                                                  !.answered_in_round = None]],
   details |-> [fs.details EXCEPT ![r] = None]]

close_timed_out_round_previous(fs, r, now) ==
  [config  |-> fs.config,
   rounds  |-> [fs.rounds EXCEPT ![r] = [@ EXCEPT !.answer = fs.rounds[Pred(r)].answer,
                                                  !.updated_at = now,
                                                  !.answered_in_round = Pred(r)]],
   details |-> [fs.details EXCEPT ![r] = None]]

close_timed_out_round(fs, r, now) ==
  LET prev == fs.rounds[Pred(r)]
  IN [config  |-> fs.config,
      rounds  |-> [fs.rounds EXCEPT ![r] =
                     [started_at        |-> fs.rounds[r].started_at,
                      answer            |-> prev.answer,
                      updated_at        |-> now,
                      answered_in_round |-> prev.answered_in_round]],
      details |-> [fs.details EXCEPT ![r] = None]]

can_initialize_round(fs, new, now) ==
  is_timed_out(fs, Pred(new), now) => can_close_timed_out_round(fs, Pred(new))

\* Mutant: a timed-out previous round is not closed.
initialize_round_unclosed(fs, new, now) ==
  [config  |-> [fs.config EXCEPT !.reporting_round = new],
   rounds  |-> [fs.rounds EXCEPT ![new] = NewRound(now)],
   details |-> [fs.details EXCEPT ![new] =
                  [submissions             |-> <<>>,
                   submission_count_bounds |-> fs.config.submission_count_bounds,
                   payment                 |-> fs.config.payment,
                   timeout                 |-> fs.config.timeout]]]

initialize_round(fs, new, now) ==
  LET closed == IF is_timed_out(fs, Pred(new), now)
                THEN close_timed_out_round(fs, Pred(new), now)
                ELSE fs
  IN [config  |-> [fs.config EXCEPT !.reporting_round = new],
      rounds  |-> [closed.rounds EXCEPT ![new] = NewRound(now)],
      details |-> [closed.details EXCEPT ![new] =
                     [submissions             |-> <<>>,
                      submission_count_bounds |-> fs.config.submission_count_bounds,
                      payment                 |-> fs.config.payment,
                      timeout                 |-> fs.config.timeout]]]

\* MutableFeedInterface::request_new_round, which starts the round after the
\* reporting one: the condition under which it returns Ok.
can_request_new_round(fs, now) ==
  LET reporting == fs.config.reporting_round
  IN /\ reporting < RoundIdMax
     /\ is_supersedable(fs, reporting, now)
     /\ can_initialize_round(fs, reporting + 1, now)

(***************************************************************************)
(* The answer of round r becomes `answer'; the previous round stops taking *)
(* submissions and the oldest round outside the window goes.               *)
(***************************************************************************)
UpdateAnswer(fs, r, answer, now) ==
  prune_oldest(
    [config  |-> [fs.config EXCEPT !.latest_round = r,
                                   !.first_valid_round = IF @ = None THEN r ELSE @],
     rounds  |-> [fs.rounds EXCEPT ![r] =
                    [started_at        |-> fs.rounds[r].started_at,
                     answer            |-> answer,
                     updated_at        |-> now,
                     answered_in_round |-> r]],
     details |-> IF Pred(r) > 0 THEN [fs.details EXCEPT ![Pred(r)] = None]
                                ELSE fs.details])

(***************************************************************************)
(* The part of submit that works on the feed (payment apart): the round is *)
(* started if it is the next one and the restart delay of the oracle is    *)
(* over; its details are taken out of storage, the submission recorded,    *)
(* the answer updated once there are enough, and the details put back      *)
(* unless they are complete.  median sorts the submissions in place.       *)
(***************************************************************************)
next_eligible_round(config, o) ==
  (IF o.last_started_round = None THEN 0 ELSE o.last_started_round)
    + config.restart_delay + 1

\* Mutant: any round that may be reported on is started.
Starts_any(fs, o, r) ==
  r >= next_eligible_round(fs.config, o) \/ o.last_started_round = None

Starts(fs, o, r) ==
  /\ r = Succ(fs.config.reporting_round)
  /\ \/ r >= next_eligible_round(fs.config, o)
     \/ o.last_started_round = None

StartIfDue(fs, o, r, now) ==
  IF Starts(fs, o, r) THEN initialize_round(fs, r, now) ELSE fs

\* NotAcceptingSubmissions without details, RoundNotFound without the round
\* that an answer would be written to.
can_record_submission(fs, r) ==
  /\ fs.details[r] # None
  /\ Len(fs.details[r].submissions) + 1 >= fs.details[r].submission_count_bounds[1]
       => fs.rounds[r] # None

RecordSubmission(fs, r, v, now) ==
  LET d        == fs.details[r]
      all      == Append(d.submissions, v)
      answered == Len(all) >= d.submission_count_bounds[1]
      kept     == IF answered THEN sort_unstable(all) ELSE all
      taken    == [fs EXCEPT !.details = [@ EXCEPT ![r] = None]]
      updated  == IF answered THEN UpdateAnswer(taken, r, median(kept), now) ELSE taken
  IN IF Len(kept) < d.submission_count_bounds[2]
     THEN [updated EXCEPT !.details = [@ EXCEPT ![r] = [d EXCEPT !.submissions = kept]]]
     ELSE updated

-----------------------------------------------------------------------------
(***************************************************************************)
(* Oracles.  The code walks a list and fails on the first entry it cannot  *)
(* take; a list that names an oracle twice fails on the second mention.    *)
(***************************************************************************)
Enabled(status) == status # None /\ status.ending_round = None

NoDuplicates(list) ==
  \A i, j \in DOMAIN list : list[i] = list[j] => i = j

can_disable_oracles(config, statuses, list) ==
  /\ Len(list) <= config.oracle_count
  /\ NoDuplicates(list)
  /\ \A i \in DOMAIN list : Enabled(statuses[list[i]])

disable_oracles(config, statuses, list) ==
  [o \in Accounts |->
     IF \E i \in DOMAIN list : list[i] = o
     THEN [statuses[o] EXCEPT !.ending_round = config.reporting_round]
     ELSE statuses[o]]

\* `list' is a sequence of pairs <<oracle, admin>>.
OracleOf(list) == [i \in DOMAIN list |-> list[i][1]]

\* Mutant: an enabled oracle may be added again.
can_add_oracles_again(count, limit, statuses, metas, list) ==
  /\ count + Len(list) <= limit
  /\ \A i \in DOMAIN list :
       metas[list[i][1]] # None => metas[list[i][1]].admin = list[i][2]

can_add_oracles(count, limit, statuses, metas, list) ==
  /\ count + Len(list) <= limit
  /\ NoDuplicates(OracleOf(list))
  /\ \A i \in DOMAIN list :
       /\ ~Enabled(statuses[list[i][1]])
       /\ metas[list[i][1]] # None => metas[list[i][1]].admin = list[i][2]

add_oracles(reporting, statuses, list) ==
  [o \in Accounts |->
     IF \E i \in DOMAIN list : list[i][1] = o
     THEN IF statuses[o] = None
          THEN NewOracleStatus(reporting)
          ELSE [statuses[o] EXCEPT !.starting_round = reporting,
                                   !.ending_round = None]
     ELSE statuses[o]]

\* Mutant: the restart delay may equal the number of oracles.
can_update_future_rounds_off_by_one(count, bounds, delay) ==
  /\ bounds[2] >= bounds[1]
  /\ count >= bounds[2]
  /\ count >= delay
  /\ count > 0 => bounds[1] > 0

can_update_future_rounds(count, bounds, delay) ==
  /\ bounds[2] >= bounds[1]
  /\ count >= bounds[2]
  /\ count > delay
  /\ count > 0 => bounds[1] > 0

update_future_rounds(config, payment, bounds, delay, timeout) ==
  [config EXCEPT !.payment = payment,
                 !.submission_count_bounds = bounds,
                 !.restart_delay = delay,
                 !.timeout = timeout]

-----------------------------------------------------------------------------
(***************************************************************************)
(* What the mutators keep, as long as RoundId does not saturate.           *)
(***************************************************************************)
FeedState == [config  : FeedConfig,
              rounds  : [RoundId -> Option(Round)],
              details : [RoundId -> Option(RoundDetails)]]

ProperBounds(bounds) == 1 <= bounds[1] /\ bounds[1] <= bounds[2]

\* Stored are round 0 and the rounds from next_round_to_prune to
\* reporting_round, and details only for stored rounds.
WellStored(fs, r) ==
  /\ fs.rounds[r] # None <=>
       \/ r = 0
       \/ fs.config.next_round_to_prune <= r /\ r <= fs.config.reporting_round
  /\ fs.details[r] # None =>
       /\ r # 0
       /\ fs.rounds[r] # None
       /\ ProperBounds(fs.details[r].submission_count_bounds)

\* A round without data is the reporting round and waits for submissions.
OpenOrAnswered(fs, r) ==
  fs.rounds[r] # None /\ ~HasData(fs.rounds[r]) =>
    /\ r = fs.config.reporting_round
    /\ fs.rounds[r].updated_at = None
    /\ fs.details[r] # None
    /\ Len(fs.details[r].submissions) < fs.details[r].submission_count_bounds[1]

WellFormed(fs) ==
  /\ fs.config.latest_round <= fs.config.reporting_round
  /\ 1 <= fs.config.next_round_to_prune
  /\ \/ fs.config.next_round_to_prune = 1
     \/ fs.config.next_round_to_prune <= fs.config.latest_round
  /\ 1 <= fs.config.pruning_window
  /\ ProperBounds(fs.config.submission_count_bounds)
  /\ HasData(fs.rounds[fs.config.latest_round])
  /\ \A r \in RoundId : WellStored(fs, r) /\ OpenOrAnswered(fs, r)
=============================================================================
