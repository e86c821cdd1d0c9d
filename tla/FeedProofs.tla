----------------------------- MODULE FeedProofs -----------------------------
(***************************************************************************)
(* Facts about the operators of Median and Feed: what they return, and     *)
(* that the mutators of a feed keep it well-formed.                        *)
(***************************************************************************)
EXTENDS Feed, FiniteSetTheorems, WellFoundedInduction, TLAPS

-----------------------------------------------------------------------------
(***************************************************************************)
(* The median                                                              *)
(***************************************************************************)

\* Every non-empty set of natural numbers has a least element (through the
\* well-founded order of the finite sets 0 .. n).
LEMMA LeastNatural ==
  ASSUME NEW T \in SUBSET Nat, T # {}
  PROVE  \E m \in T : \A n \in T : m <= n
<1> DEFINE F == {0 .. n : n \in T}
           R == StrictSubsetOrdering(Nat)
<1>1. F # {}
  BY Zenon
<1>2. F \subseteq FiniteSubsetsOf(Nat)
  <2>1. SUFFICES ASSUME NEW n \in T PROVE 0 .. n \in FiniteSubsetsOf(Nat)
    OBVIOUS
  <2>2. n \in Int /\ 0 \in Int
    OBVIOUS
  <2>3. IsFiniteSet(0 .. n)
    BY <2>2, FS_Interval
  <2>4. 0 .. n \in SUBSET Nat
    BY <2>2
  <2> QED
    BY <2>3, <2>4 DEF FiniteSubsetsOf
<1>3. IsWellFoundedOn(R, FiniteSubsetsOf(Nat))
  BY FS_StrictSubsetOrderingWellFounded
<1>4. \E x \in F : \A y \in F : ~(<<y, x>> \in R)
  <2> HIDE DEF F, R
  <2> QED
    BY <1>1, <1>2, <1>3, WFMin
<1>5. PICK m \in T : \A n \in T : ~(<<0 .. n, 0 .. m>> \in R)
  BY Zenon, <1>4
<1>6. ASSUME NEW n \in T, ~(m <= n)
      PROVE  FALSE
  <2>1. m \in 0 .. m /\ m \notin 0 .. n
    BY <1>6
  <2>2. 0 .. n \subseteq 0 .. m
    BY <1>6
  <2>3. 0 .. n \in SUBSET Nat /\ 0 .. m \in SUBSET Nat
    OBVIOUS
  <2>4. <<0 .. n, 0 .. m>> \in R
    BY <2>1, <2>2, <2>3 DEF StrictSubsetOrdering
  <2> QED
    BY <2>4, <1>5
<1> QED
  BY <1>6

\* sort_unstable puts the k-th smallest submission in place k, and there is one.
LEMMA KthSmallestExists ==
  ASSUME NEW s \in Seq(Value), NEW k \in 1 .. Len(s)
  PROVE  /\ KthSmallest(s, k) \in Value
         /\ IsKthSmallest(s, k, KthSmallest(s, k))
<1> DEFINE T == {v \in Nat : k <= Cardinality(UpTo(s, v))}
<1>1. \A i \in DOMAIN s : s[i] \in Int /\ s[i] >= 0 /\ s[i] <= ValueMax
  <2>1. \A i \in DOMAIN s : s[i] \in Value
    OBVIOUS
  <2> QED
    BY <2>1, ValueMaxAssumption DEF Value
<1>2. IsFiniteSet(DOMAIN s) /\ Cardinality(DOMAIN s) = Len(s)
  <2>1. DOMAIN s = 1 .. Len(s) /\ Len(s) \in Nat
    OBVIOUS
  <2> QED
    BY <2>1, FS_Interval
<1>3. ASSUME NEW v
      PROVE  Cardinality(UpTo(s, v)) \in Nat
  <2>1. UpTo(s, v) \in SUBSET DOMAIN s
    BY DEF UpTo
  <2> QED
    BY <2>1, <1>2, FS_Subset, FS_CardinalityType
<1>4. ValueMax \in T
  <2>1. UpTo(s, ValueMax) = DOMAIN s
    BY Zenon, <1>1 DEF UpTo
  <2> QED
    BY <2>1, <1>2, ValueMaxAssumption
<1>5. PICK m \in T : \A n \in T : m <= n
  <2>1. T \in SUBSET Nat /\ T # {}
    BY <1>4
  <2> HIDE DEF T
  <2> QED
    BY <2>1, LeastNatural
<1>6. m \in Value
  BY <1>4, <1>5, ValueMaxAssumption DEF Value
<1>7. m \in Int
  BY <1>5
<1>8. Cardinality(Below(s, m)) < k
  <2>1. CASE m = 0
    <3>1. Below(s, m) = {}
      BY <2>1, <1>1 DEF Below
    <3> QED
      BY <3>1, FS_EmptySet
  <2>2. CASE m # 0
    <3>1. m - 1 \in Nat /\ m - 1 \notin T
      BY <2>2, <1>5
    <3>2. Below(s, m) = UpTo(s, m - 1)
      BY <1>1, <1>7 DEF Below, UpTo
    <3>3. ~(k <= Cardinality(UpTo(s, m - 1)))
      BY <3>1
    <3> QED
      BY <3>2, <3>3, <1>3
  <2> QED
    BY <2>1, <2>2
<1>9. IsKthSmallest(s, k, m)
  BY <1>5, <1>8 DEF IsKthSmallest
<1> QED
  BY <1>6, <1>9 DEF KthSmallest

\* Sorting keeps the number and the type of the submissions.
LEMMA SortTyped ==
  ASSUME NEW s \in Seq(Value)
  PROVE  /\ sort_unstable(s) \in Seq(Value)
         /\ Len(sort_unstable(s)) = Len(s)
<1>1. \A k \in 1 .. Len(s) : KthSmallest(s, k) \in Value
  BY KthSmallestExists
<1>2. Len(s) \in Nat
  OBVIOUS
<1> QED
  BY <1>1, <1>2 DEF sort_unstable

\* The median of a non-empty slice of values is a value: the saturating sum
\* never leaves the type, and the middle indices never leave the slice.
LEMMA MedianTyped ==
  ASSUME NEW s \in Seq(Value), Len(s) > 0
  PROVE  median(s) \in Value
<1>1. PICK n \in Nat : n = Len(s) /\ n > 0
  OBVIOUS
<1>2. \A i \in 1 .. n : s[i] \in Value
  BY <1>1
<1>3. CASE n % 2 = 0
  <2>1. n \div 2 \in 1 .. n /\ (n \div 2) + 1 \in 1 .. n
    BY <1>1, <1>3
  <2>2. PICK x \in Value, y \in Value : x = s[n \div 2] /\ y = s[(n \div 2) + 1]
    BY <2>1, <1>2
  <2>3. saturating_add(x, y) \div 2 \in Value
    BY ValueMaxAssumption DEF Value, saturating_add
  <2> QED
    BY <1>1, <1>3, <2>2, <2>3 DEF median
<1>4. CASE n % 2 # 0
  <2>1. (n \div 2) + 1 \in 1 .. n
    BY <1>1, <1>4
  <2> QED
    BY <1>1, <1>2, <1>4, <2>1 DEF median
<1> QED
  BY <1>3, <1>4

-----------------------------------------------------------------------------
(***************************************************************************)
(* Pruning                                                                 *)
(***************************************************************************)

\* Removing the rounds before upto keeps a feed well-formed as long as the
\* latest round is not among them.
LEMMA PruneToKeeps ==
  ASSUME NEW fs \in FeedState, WellFormed(fs),
         NEW upto \in Nat,
         fs.config.next_round_to_prune <= upto,
         upto <= fs.config.latest_round
  PROVE  /\ PruneTo(fs, upto) \in FeedState
         /\ WellFormed(PruneTo(fs, upto))
<1> DEFINE c == fs.config
           g == PruneTo(fs, upto)
           pruned(r) == c.next_round_to_prune <= r /\ r < upto
<1>1. /\ c \in FeedConfig
      /\ fs.rounds \in [RoundId -> Option(Round)]
      /\ fs.details \in [RoundId -> Option(RoundDetails)]
  BY DEF FeedState
<1>2. /\ c.latest_round \in RoundId /\ c.reporting_round \in RoundId
      /\ c.next_round_to_prune \in RoundId /\ c.pruning_window \in RoundId
  BY <1>1 DEF FeedConfig
<1>3. upto \in RoundId /\ upto \in Option(RoundId)
  BY <1>2, RoundIdMaxAssumption DEF RoundId, Option
<1>4. /\ g.config = [c EXCEPT !.next_round_to_prune = upto, !.first_valid_round = upto]
      /\ g.rounds = [r \in RoundId |-> IF pruned(r) THEN None ELSE fs.rounds[r]]
      /\ g.details = [r \in RoundId |-> IF pruned(r) THEN None ELSE fs.details[r]]
      /\ g = [config |-> g.config, rounds |-> g.rounds, details |-> g.details]
  BY DEF PruneTo
<1>5. g.config \in FeedConfig
  BY Zenon, <1>1, <1>3, <1>4 DEF FeedConfig
<1>6. g.rounds \in [RoundId -> Option(Round)] /\ g.details \in [RoundId -> Option(RoundDetails)]
  BY <1>1, <1>4 DEF Option
<1>7. /\ g.config.next_round_to_prune = upto
      /\ g.config.latest_round = c.latest_round
      /\ g.config.reporting_round = c.reporting_round
      /\ g.config.pruning_window = c.pruning_window
      /\ g.config.submission_count_bounds = c.submission_count_bounds
  BY <1>1, <1>4 DEF FeedConfig
<1>8. g.rounds[c.latest_round] = fs.rounds[c.latest_round]
  BY <1>2, <1>4 DEF RoundId
<1>9. ASSUME NEW r \in RoundId
      PROVE  WellStored(g, r) /\ OpenOrAnswered(g, r)
  <2>1. WellStored(fs, r) /\ OpenOrAnswered(fs, r)
    BY DEF WellFormed
  <2>2. CASE pruned(r)
    <3>1. g.rounds[r] = None /\ g.details[r] = None
      BY <1>4, <2>2
    <3>2. r # 0 /\ ~(upto <= r)
      BY <1>2, <2>2 DEF WellFormed, RoundId
    <3> QED
      BY <3>1, <3>2, <1>7 DEF WellStored, OpenOrAnswered
  <2>3. CASE ~pruned(r)
    <3>1. g.rounds[r] = fs.rounds[r] /\ g.details[r] = fs.details[r]
      BY <1>4, <2>3
    <3>2. c.next_round_to_prune <= r <=> upto <= r
      BY <1>2, <2>3 DEF RoundId
    <3> QED
      BY <3>1, <3>2, <2>1, <1>7 DEF WellStored, OpenOrAnswered
  <2> QED
    BY <2>2, <2>3
<1>10. g \in FeedState
  BY <1>4, <1>5, <1>6 DEF FeedState
<1>11. 1 <= upto
  BY <1>2 DEF WellFormed, RoundId
<1> QED
  BY <1>7, <1>8, <1>9, <1>10, <1>11 DEF WellFormed

\* What a step leaves alone: counters only go up, and a closed round keeps
\* its data until it is pruned.
Advances(fs, g) ==
  /\ g.config.reporting_round \in {fs.config.reporting_round, fs.config.reporting_round + 1}
  /\ g.config.latest_round >= fs.config.latest_round
  /\ g.config.next_round_to_prune >= fs.config.next_round_to_prune

Frozen(fs, g) ==
  \A r \in RoundId : HasData(fs.rounds[r]) /\ fs.details[r] = None =>
    g.rounds[r] \in {fs.rounds[r], None} /\ g.details[r] = None

OnlyPrunes(fs, g) ==
  /\ g.config = [fs.config EXCEPT
                   !.next_round_to_prune = g.config.next_round_to_prune,
                   !.first_valid_round = g.config.first_valid_round]
  /\ g.config.next_round_to_prune >= fs.config.next_round_to_prune
  /\ \A r \in RoundId : /\ g.rounds[r] \in {fs.rounds[r], None}
                         /\ g.details[r] \in {fs.details[r], None}

\* The one step of prune_oldest keeps a feed well-formed.
LEMMA PruneOldestKeeps ==
  ASSUME NEW fs \in FeedState, WellFormed(fs)
  PROVE  /\ prune_oldest(fs) \in FeedState
         /\ WellFormed(prune_oldest(fs))
         /\ OnlyPrunes(fs, prune_oldest(fs))
<1> DEFINE c == fs.config
<1>1. /\ c.latest_round \in Nat /\ c.next_round_to_prune \in Nat
      /\ c.pruning_window \in Nat /\ c \in FeedConfig
  BY RoundIdMaxAssumption DEF FeedState, FeedConfig, RoundId
<1>2. 1 <= c.pruning_window
  BY DEF WellFormed
<1>3. CASE current_window(c) >= c.pruning_window
  <2>1. c.next_round_to_prune + 1 <= c.latest_round
    BY <1>1, <1>2, <1>3 DEF current_window
  <2>2. /\ PruneTo(fs, c.next_round_to_prune + 1) \in FeedState
        /\ WellFormed(PruneTo(fs, c.next_round_to_prune + 1))
    BY <1>1, <2>1, PruneToKeeps
  <2>3. OnlyPrunes(fs, PruneTo(fs, c.next_round_to_prune + 1))
    <3> DEFINE g == PruneTo(fs, c.next_round_to_prune + 1)
    <3>1. g.config = [c EXCEPT !.next_round_to_prune = c.next_round_to_prune + 1,
                               !.first_valid_round = c.next_round_to_prune + 1]
      BY DEF PruneTo
    <3>2. /\ g.config.next_round_to_prune = c.next_round_to_prune + 1
          /\ g.config.first_valid_round = c.next_round_to_prune + 1
      BY Zenon, <1>1, <3>1 DEF FeedConfig
    <3>3. \A r \in RoundId : /\ g.rounds[r] \in {fs.rounds[r], None}
                             /\ g.details[r] \in {fs.details[r], None}
      BY DEF PruneTo
    <3> HIDE DEF g
    <3>4. g.config = [c EXCEPT !.next_round_to_prune = g.config.next_round_to_prune,
                               !.first_valid_round = g.config.first_valid_round]
      BY <3>1, <3>2
    <3>5. g.config.next_round_to_prune >= c.next_round_to_prune
      BY <1>1, <3>2
    <3>6. OnlyPrunes(fs, g)
      BY <3>3, <3>4, <3>5 DEF OnlyPrunes
    <3> QED
      BY <3>6 DEF g
  <2> QED
    BY <1>3, <2>2, <2>3 DEF prune_oldest
<1>4. CASE ~(current_window(c) >= c.pruning_window)
  <2>1. fs.config = [fs.config EXCEPT
                       !.next_round_to_prune = fs.config.next_round_to_prune,
                       !.first_valid_round = fs.config.first_valid_round]
    BY Zenon, <1>1 DEF FeedConfig
  <2>2. OnlyPrunes(fs, fs)
    BY <1>1, <2>1 DEF OnlyPrunes
  <2> QED
    BY <1>4, <2>2 DEF prune_oldest
<1> QED
  BY <1>3, <1>4

\* So does the loop of set_pruning_window, which neither prunes the latest
\* round nor moves any counter back.
LEMMA PruneAllKeeps ==
  ASSUME NEW fs \in FeedState, WellFormed(fs)
  PROVE  /\ PruneAll(fs) \in FeedState
         /\ WellFormed(PruneAll(fs))
         /\ Advances(fs, PruneAll(fs))
         /\ Frozen(fs, PruneAll(fs))
<1> DEFINE c == fs.config
           upto == c.latest_round - c.pruning_window + 1
<1>1. /\ c.latest_round \in Nat /\ c.next_round_to_prune \in Nat
      /\ c.pruning_window \in Nat /\ c.reporting_round \in Nat
      /\ c \in FeedConfig
  BY RoundIdMaxAssumption DEF FeedState, FeedConfig, RoundId
<1>2. 1 <= c.pruning_window
  BY DEF WellFormed
<1>3. CASE current_window(c) >= c.pruning_window
  <2>1. upto \in Nat /\ c.next_round_to_prune <= upto /\ upto <= c.latest_round
    BY <1>1, <1>2, <1>3 DEF current_window
  <2>2. PruneTo(fs, upto) \in FeedState /\ WellFormed(PruneTo(fs, upto))
    BY <2>1, PruneToKeeps
  <2>3. Advances(fs, PruneTo(fs, upto))
    <3>1. PruneTo(fs, upto).config =
            [c EXCEPT !.next_round_to_prune = upto, !.first_valid_round = upto]
      BY DEF PruneTo
    <3> HIDE DEF upto
    <3> QED
      BY <1>1, <2>1, <3>1 DEF Advances, FeedConfig
  <2>4. Frozen(fs, PruneTo(fs, upto))
    <3> HIDE DEF upto, c
    <3> QED
      BY DEF Frozen, PruneTo
  <2> QED
    BY <1>3, <2>2, <2>3, <2>4 DEF PruneAll
<1>4. CASE ~(current_window(c) >= c.pruning_window)
  BY <1>1, <1>4 DEF PruneAll, Advances, Frozen
<1> QED
  BY <1>3, <1>4

-----------------------------------------------------------------------------
(***************************************************************************)
(* Starting a round                                                        *)
(***************************************************************************)

\* A round that may be superseded, once closed if it is timed out, has data.
LEMMA SupersededHasData ==
  ASSUME NEW fs \in FeedState, WellFormed(fs), NEW now \in Nat,
         NEW r \in RoundId, r = fs.config.reporting_round,
         is_supersedable(fs, r, now),
         is_timed_out(fs, r, now) => can_close_timed_out_round(fs, r),
         NEW g, g = IF is_timed_out(fs, r, now)
                    THEN close_timed_out_round(fs, r, now) ELSE fs
  PROVE  /\ g.config = fs.config
         /\ g.rounds \in [RoundId -> Option(Round)]
         /\ g.details \in [RoundId -> Option(RoundDetails)]
         /\ HasData(g.rounds[r])
         /\ g.details[r] # None => g.details[r] = fs.details[r]
         /\ \A q \in RoundId \ {r} : /\ g.rounds[q] = fs.rounds[q]
                                    /\ g.details[q] = fs.details[q]
         /\ g.rounds[r] # fs.rounds[r] => fs.details[r] # None
<1>1. /\ fs.rounds \in [RoundId -> Option(Round)]
      /\ fs.details \in [RoundId -> Option(RoundDetails)]
  BY DEF FeedState
<1>2. WellStored(fs, r) /\ OpenOrAnswered(fs, r)
  BY DEF WellFormed
<1>3. CASE is_timed_out(fs, r, now)
  <2>1. fs.details[r] # None /\ r # 0 /\ fs.rounds[r] \in Round
    BY <1>1, <1>2, <1>3 DEF is_timed_out, WellStored, Option
  <2>2. Pred(r) \in RoundId /\ Pred(r) # r /\ fs.rounds[Pred(r)] # None
    BY <1>3, <2>1, RoundIdMaxAssumption DEF Pred, RoundId, can_close_timed_out_round
  <2>3. HasData(fs.rounds[Pred(r)])
    BY <2>2 DEF WellFormed, OpenOrAnswered
  <2> DEFINE prev == fs.rounds[Pred(r)]
             closed == [started_at |-> fs.rounds[r].started_at, answer |-> prev.answer,
                        updated_at |-> now, answered_in_round |-> prev.answered_in_round]
  <2>4. prev \in Round
    BY <1>1, <2>2 DEF Option
  <2>5. closed \in Round /\ HasData(closed)
    BY <2>1, <2>3, <2>4, NoneAssumption DEF Round, HasData, Option
  <2>6. g = [config  |-> fs.config,
             rounds  |-> [fs.rounds EXCEPT ![r] = closed],
             details |-> [fs.details EXCEPT ![r] = None]]
    BY <1>3 DEF close_timed_out_round
  <2> HIDE DEF closed, prev
  <2> QED
    BY <1>1, <2>1, <2>5, <2>6 DEF Option
<1>4. CASE ~is_timed_out(fs, r, now)
  <2>1. HasData(fs.rounds[r])
    BY <1>2, <1>4 DEF is_supersedable, was_updated, WellStored, OpenOrAnswered
  <2> QED
    BY <1>1, <1>4, <2>1
<1> QED
  BY <1>3, <1>4

\* initialize_round of the round after the reporting one: the reporting round
\* has data from now on, the new one waits for its submissions.
LEMMA InitializeKeeps ==
  ASSUME NEW fs \in FeedState, WellFormed(fs), NEW now \in Nat,
         NEW new \in RoundId, new = fs.config.reporting_round + 1,
         is_supersedable(fs, fs.config.reporting_round, now),
         can_initialize_round(fs, new, now)
  PROVE  LET g == initialize_round(fs, new, now)
         IN /\ g \in FeedState
            /\ WellFormed(g)
            /\ Advances(fs, g)
            /\ Frozen(fs, g)
            /\ g.config = [fs.config EXCEPT !.reporting_round = new]
<1> DEFINE c == fs.config
           rep == fs.config.reporting_round
           g == initialize_round(fs, new, now)
           cl == IF is_timed_out(fs, rep, now)
                 THEN close_timed_out_round(fs, rep, now) ELSE fs
           d == [submissions |-> <<>>,
                 submission_count_bounds |-> c.submission_count_bounds,
                 payment |-> c.payment, timeout |-> c.timeout]
<1>1. /\ c \in FeedConfig
      /\ rep \in RoundId /\ c.latest_round \in RoundId
      /\ c.next_round_to_prune \in RoundId /\ c.pruning_window \in RoundId
  BY DEF FeedState, FeedConfig
<1>2. Pred(new) = rep
  BY <1>1 DEF Pred, RoundId
<1>3. /\ cl.config = c
      /\ cl.rounds \in [RoundId -> Option(Round)]
      /\ cl.details \in [RoundId -> Option(RoundDetails)]
      /\ HasData(cl.rounds[rep])
      /\ cl.details[rep] # None => cl.details[rep] = fs.details[rep]
      /\ \A q \in RoundId \ {rep} : /\ cl.rounds[q] = fs.rounds[q]
                                   /\ cl.details[q] = fs.details[q]
      /\ cl.rounds[rep] # fs.rounds[rep] => fs.details[rep] # None
  <2>1. is_timed_out(fs, rep, now) => can_close_timed_out_round(fs, rep)
    BY <1>2 DEF can_initialize_round
  <2> HIDE DEF rep, c
  <2>2. fs.config = c /\ rep = fs.config.reporting_round
    BY DEF rep, c
  <2> QED
    BY <1>1, <2>1, <2>2, SupersededHasData
<1>4. g = [config  |-> [c EXCEPT !.reporting_round = new],
           rounds  |-> [cl.rounds EXCEPT ![new] = NewRound(now)],
           details |-> [cl.details EXCEPT ![new] = d]]
  BY <1>2 DEF initialize_round
<1> HIDE DEF cl, g
<1>5. NewRound(now) \in Round /\ NewRound(now).updated_at = None /\ ~HasData(NewRound(now))
  BY DEF NewRound, Round, Option, HasData
<1>6. /\ d \in RoundDetails /\ d # None /\ Len(d.submissions) = 0
      /\ d.submission_count_bounds = c.submission_count_bounds
  <2>1. /\ c.submission_count_bounds \in Nat \X Nat
        /\ c.payment \in Nat /\ c.timeout \in Nat
    BY <1>1 DEF FeedConfig
  <2>2. <<>> \in Seq(Value) /\ Len(<<>>) = 0
    OBVIOUS
  <2> HIDE DEF c
  <2>3. d \in RoundDetails
    BY <2>1, <2>2 DEF RoundDetails
  <2> QED
    BY <2>2, <2>3, NoneAssumption
<1> HIDE DEF d
<1>7. /\ g.config \in FeedConfig
      /\ g.config.reporting_round = new
      /\ g.config.latest_round = c.latest_round
      /\ g.config.next_round_to_prune = c.next_round_to_prune
      /\ g.config.pruning_window = c.pruning_window
      /\ g.config.submission_count_bounds = c.submission_count_bounds
  BY <1>1, <1>4 DEF FeedConfig
<1>8. /\ g.rounds \in [RoundId -> Option(Round)]
      /\ g.details \in [RoundId -> Option(RoundDetails)]
      /\ g.rounds[new] = NewRound(now) /\ g.details[new] = d
      /\ \A q \in RoundId \ {new} : /\ g.rounds[q] = cl.rounds[q]
                                   /\ g.details[q] = cl.details[q]
  BY <1>3, <1>4, <1>5, <1>6 DEF Option
<1>9. g \in FeedState
  BY <1>4, <1>7, <1>8 DEF FeedState
<1>10. rep # new /\ rep < new /\ rep \in Nat /\ new \in Nat
  BY <1>1 DEF RoundId
<1>11. ProperBounds(c.submission_count_bounds) /\ c.latest_round <= rep
  BY DEF WellFormed
<1>12. HasData(g.rounds[c.latest_round])
  <2>1. c.latest_round # new
    BY <1>1, <1>10, <1>11 DEF RoundId
  <2> QED
    BY Zenon, <1>1, <1>3, <1>8, <2>1 DEF WellFormed
<1>13. ASSUME NEW r \in RoundId
       PROVE  WellStored(g, r) /\ OpenOrAnswered(g, r)
  <2>1. WellStored(fs, r) /\ OpenOrAnswered(fs, r)
    BY DEF WellFormed
  <2>2. CASE r = new
    <3>1. c.next_round_to_prune <= new /\ new # 0
      BY <1>1, <1>10, <1>11 DEF WellFormed, RoundId
    <3>2. NewRound(now) # None
      BY <1>5, NoneAssumption
    <3>3. 0 < c.submission_count_bounds[1]
      BY <1>1, <1>11 DEF ProperBounds, FeedConfig
    <3>4. WellStored(g, r)
      BY <2>2, <3>1, <3>2, <1>6, <1>7, <1>8, <1>10, <1>11 DEF WellStored
    <3>5. OpenOrAnswered(g, r)
      BY <2>2, <3>3, <1>5, <1>6, <1>7, <1>8 DEF OpenOrAnswered
    <3> QED
      BY <3>4, <3>5
  <2>3. CASE r = rep
    <3>1. g.rounds[r] = cl.rounds[r] /\ g.details[r] = cl.details[r] /\ HasData(g.rounds[r])
      BY <2>3, <1>3, <1>8, <1>10
    <3>2. g.rounds[r] # None
      BY <3>1 DEF HasData
    <3>3. fs.rounds[r] # None
      BY <2>3, <3>1, <3>2, <1>3, <2>1 DEF WellStored
    <3>4. WellStored(g, r)
      BY <2>3, <2>1, <3>1, <3>2, <3>3, <1>1, <1>3, <1>7, <1>10 DEF WellStored, RoundId
    <3> QED
      BY <3>1, <3>4 DEF OpenOrAnswered
  <2>4. CASE r # new /\ r # rep
    <3>1. g.rounds[r] = fs.rounds[r] /\ g.details[r] = fs.details[r]
      BY <2>4, <1>3, <1>8
    <3>2. r <= new <=> r <= rep
      BY <2>4, <1>1, <1>10 DEF RoundId
    <3> QED
      BY <2>1, <2>4, <3>1, <3>2, <1>7 DEF WellStored, OpenOrAnswered
  <2> QED
    BY <2>2, <2>3, <2>4
<1>14. WellFormed(g)
  BY <1>7, <1>10, <1>11, <1>12, <1>13, <1>1 DEF WellFormed, RoundId
<1>15. Advances(fs, g)
  BY <1>1, <1>7 DEF Advances, RoundId
<1>16. Frozen(fs, g)
  <2> SUFFICES ASSUME NEW r \in RoundId, HasData(fs.rounds[r]), fs.details[r] = None
               PROVE  g.rounds[r] = fs.rounds[r] /\ g.details[r] = None
    BY DEF Frozen
  <2>1. r # new
    <3>1. fs.rounds[r] # None
      BY DEF HasData
    <3>2. WellStored(fs, r)
      BY DEF WellFormed
    <3> QED
      BY <3>1, <3>2, <1>1, <1>10 DEF WellStored, RoundId
  <2> QED
    BY <2>1, <1>3, <1>8
<1> QED
  BY <1>4, <1>9, <1>14, <1>15, <1>16 DEF g

-----------------------------------------------------------------------------
(***************************************************************************)
(* Recording a submission                                                  *)
(***************************************************************************)

\* The answer of a round that took submissions and is not older than the
\* latest one: the feed is well-formed with the details of that round taken
\* out, and nothing but that round and the details before it have changed.
LEMMA UpdateAnswerKeeps ==
  ASSUME NEW fs \in FeedState, WellFormed(fs), NEW now \in Nat,
         NEW r \in RoundId, NEW answer \in Value,
         fs.details[r] # None, fs.config.latest_round <= r,
         NEW taken, taken = [fs EXCEPT !.details = [@ EXCEPT ![r] = None]]
  PROVE  LET g == UpdateAnswer(taken, r, answer, now)
         IN /\ g \in FeedState
            /\ WellFormed(g)
            /\ g.config.reporting_round = fs.config.reporting_round
            /\ g.config.latest_round = r
            /\ g.config.debt = fs.config.debt
            /\ g.config.max_debt = fs.config.max_debt
            /\ Advances(fs, g)
            /\ g.rounds[r] # None
            /\ \A q \in RoundId \ {r} : /\ g.rounds[q] \in {fs.rounds[q], None}
                                        /\ g.details[q] \in {fs.details[q], None}
<1> DEFINE c == fs.config
           answered == [started_at |-> fs.rounds[r].started_at, answer |-> answer,
                        updated_at |-> now, answered_in_round |-> r]
           cc == [c EXCEPT !.latest_round = r,
                           !.first_valid_round = IF @ = None THEN r ELSE @]
           open == [fs.details EXCEPT ![r] = None]
           dd == IF Pred(r) > 0 THEN [open EXCEPT ![Pred(r)] = None] ELSE open
           u == [config |-> cc, rounds |-> [fs.rounds EXCEPT ![r] = answered],
                 details |-> dd]
<1>1. /\ c \in FeedConfig
      /\ fs.rounds \in [RoundId -> Option(Round)]
      /\ fs.details \in [RoundId -> Option(RoundDetails)]
  BY DEF FeedState
<1>2. /\ c.reporting_round \in RoundId /\ c.latest_round \in RoundId
      /\ c.next_round_to_prune \in RoundId /\ c.pruning_window \in RoundId
      /\ c.first_valid_round \in Option(RoundId)
  BY <1>1 DEF FeedConfig
<1>3. WellStored(fs, r)
  BY DEF WellFormed
<1>4. r # 0 /\ fs.rounds[r] \in Round /\ fs.rounds[r] # None
      /\ c.next_round_to_prune <= r /\ r <= c.reporting_round
  BY <1>1, <1>3 DEF WellStored, Option
<1>5. answered \in Round /\ HasData(answered)
  BY <1>4, NoneAssumption DEF Round, HasData, Option, Value, RoundId
<1>6. UpdateAnswer(taken, r, answer, now) = prune_oldest(u)
  <2>1. taken.config = c /\ taken.rounds = fs.rounds /\ taken.details = open
    BY DEF FeedState
  <2> QED
    BY <2>1 DEF UpdateAnswer
<1>7. /\ cc \in FeedConfig /\ cc.latest_round = r
      /\ cc.reporting_round = c.reporting_round
      /\ cc.next_round_to_prune = c.next_round_to_prune
      /\ cc.pruning_window = c.pruning_window
      /\ cc.submission_count_bounds = c.submission_count_bounds
      /\ cc.debt = c.debt /\ cc.max_debt = c.max_debt
  <2>1. (IF c.first_valid_round = None THEN r ELSE c.first_valid_round) \in Option(RoundId)
    BY <1>2 DEF Option
  <2> QED
    BY Zenon, <1>1, <2>1 DEF FeedConfig
<1>8. /\ dd \in [RoundId -> Option(RoundDetails)]
      /\ dd[r] = None
      /\ \A q \in RoundId : dd[q] \in {fs.details[q], None}
  <2>1. Pred(r) \in RoundId
    BY RoundIdMaxAssumption DEF Pred, RoundId
  <2>2. open \in [RoundId -> Option(RoundDetails)] /\ open[r] = None
    BY <1>1 DEF Option
  <2>3. \A q \in RoundId : open[q] \in {fs.details[q], None}
    BY <1>1
  <2> HIDE DEF open
  <2> QED
    BY <2>1, <2>2, <2>3 DEF Option
<1>9. \A q \in RoundId : q # r /\ q # Pred(r) => dd[q] = fs.details[q]
  <2>1. Pred(r) \in RoundId
    BY RoundIdMaxAssumption DEF Pred, RoundId
  <2> QED
    BY <1>1, <2>1
<1> HIDE DEF cc, dd, answered
<1>10. /\ u.config = cc
       /\ u.rounds \in [RoundId -> Option(Round)] /\ u.rounds[r] = answered
       /\ u.details = dd
       /\ \A q \in RoundId \ {r} : u.rounds[q] = fs.rounds[q]
  BY <1>1, <1>5 DEF Option
<1>11. u \in FeedState
  BY <1>7, <1>8, <1>10 DEF FeedState
<1> HIDE DEF u
<1>12. ASSUME NEW q \in RoundId
       PROVE  WellStored(u, q) /\ OpenOrAnswered(u, q)
  <2>1. WellStored(fs, q) /\ OpenOrAnswered(fs, q)
    BY DEF WellFormed
  <2>2. CASE q = r
    <3>1. u.rounds[q] # None
      BY <2>2, <1>5, <1>10 DEF HasData
    <3> QED
      BY <2>2, <3>1, <1>3, <1>4, <1>5, <1>7, <1>8, <1>10 DEF WellStored, OpenOrAnswered
  <2>3. CASE q # r
    <3>1. u.rounds[q] = fs.rounds[q]
      BY <2>3, <1>10
    <3>2. WellStored(u, q)
      BY <2>1, <3>1, <1>7, <1>8, <1>10 DEF WellStored
    <3>3. CASE q = Pred(r)
      <4>1. q # c.reporting_round
        BY <3>3, <1>2, <1>4 DEF Pred, RoundId
      <4> QED
        BY <2>1, <3>1, <3>2, <4>1 DEF OpenOrAnswered
    <3>4. CASE q # Pred(r)
      <4>1. u.details[q] = fs.details[q]
        BY <2>3, <3>4, <1>9, <1>10
      <4> QED
        BY <2>1, <3>1, <3>2, <4>1, <1>7, <1>10 DEF OpenOrAnswered
    <3> QED
      BY <3>3, <3>4
  <2> QED
    BY <2>2, <2>3
<1>13. WellFormed(u)
  <2>1. 1 <= c.next_round_to_prune /\ 1 <= c.pruning_window /\ ProperBounds(c.submission_count_bounds)
    BY DEF WellFormed
  <2> HIDE DEF c
  <2> QED
    BY <2>1, <1>4, <1>5, <1>7, <1>10, <1>12 DEF WellFormed
<1> DEFINE g == prune_oldest(u)
<1>14. g \in FeedState /\ WellFormed(g) /\ OnlyPrunes(u, g)
  BY <1>11, <1>13, PruneOldestKeeps
<1> HIDE DEF g
<1>15. /\ g.config.latest_round = r /\ g.config.reporting_round = c.reporting_round
       /\ g.config.debt = c.debt /\ g.config.max_debt = c.max_debt
       /\ g.config.next_round_to_prune >= c.next_round_to_prune
  BY Zenon, <1>7, <1>10, <1>14 DEF OnlyPrunes, FeedConfig
<1>16. HasData(g.rounds[r])
  BY <1>14, <1>15 DEF WellFormed
<1>17. \A q \in RoundId \ {r} : /\ g.rounds[q] \in {fs.rounds[q], None}
                                /\ g.details[q] \in {fs.details[q], None}
  BY <1>8, <1>10, <1>14 DEF OnlyPrunes
<1> QED
  BY <1>6, <1>14, <1>15, <1>16, <1>17 DEF Advances, HasData, g

\* A recorded submission leaves the feed well-formed: an unanswered round keeps
\* waiting for fewer submissions than its minimum, an answered one has data.
LEMMA RecordKeeps ==
  ASSUME NEW fs \in FeedState, WellFormed(fs), NEW now \in Nat,
         NEW r \in RoundId, NEW v \in Value,
         can_record_submission(fs, r), fs.config.latest_round <= r
  PROVE  LET g == RecordSubmission(fs, r, v, now)
         IN /\ g \in FeedState
            /\ WellFormed(g)
            /\ g.config.reporting_round = fs.config.reporting_round
            /\ g.config.debt = fs.config.debt
            /\ g.config.max_debt = fs.config.max_debt
            /\ Advances(fs, g)
            /\ Frozen(fs, g)
<1> DEFINE d == fs.details[r]
           all == Append(d.submissions, v)
           min == d.submission_count_bounds[1]
           max == d.submission_count_bounds[2]
           isAnswered == Len(all) >= min
           kept == IF isAnswered THEN sort_unstable(all) ELSE all
           dk == [d EXCEPT !.submissions = kept]
           taken == [fs EXCEPT !.details = [@ EXCEPT ![r] = None]]
           updated == IF isAnswered THEN UpdateAnswer(taken, r, median(kept), now)
                      ELSE taken
           g == RecordSubmission(fs, r, v, now)
<1>1. /\ fs.config \in FeedConfig
      /\ fs.rounds \in [RoundId -> Option(Round)]
      /\ fs.details \in [RoundId -> Option(RoundDetails)]
      /\ fs = [config |-> fs.config, rounds |-> fs.rounds, details |-> fs.details]
  BY DEF FeedState
<1>2. d # None /\ d \in RoundDetails
  BY <1>1 DEF can_record_submission, Option
<1>3. /\ d.submissions \in Seq(Value) /\ d.submission_count_bounds \in Nat \X Nat
      /\ min \in Nat /\ max \in Nat
  BY <1>2 DEF RoundDetails
<1>4. WellStored(fs, r) /\ OpenOrAnswered(fs, r)
  BY DEF WellFormed
<1>5. r # 0 /\ fs.rounds[r] # None /\ 1 <= min /\ min <= max
  BY <1>2, <1>4 DEF WellStored, ProperBounds
<1>6. all \in Seq(Value) /\ Len(all) = Len(d.submissions) + 1 /\ Len(d.submissions) \in Nat
  BY <1>3
<1>7. kept \in Seq(Value) /\ Len(kept) = Len(all)
  BY Zenon, <1>6, SortTyped
<1>8. g = IF Len(kept) < max
          THEN [updated EXCEPT !.details = [@ EXCEPT ![r] = dk]]
          ELSE updated
  BY DEF RecordSubmission
<1>9. /\ dk \in RoundDetails /\ dk # None /\ dk.submissions = kept
      /\ dk.submission_count_bounds = d.submission_count_bounds
  <2> HIDE DEF kept, d
  <2>1. dk \in RoundDetails
    BY <1>2, <1>7 DEF RoundDetails
  <2>2. dk # None
    BY <2>1, NoneAssumption
  <2> QED
    BY <1>2, <2>1, <2>2 DEF RoundDetails
<1>10. CASE ~isAnswered
  <2>1. Len(all) < min /\ Len(all) < max /\ kept = all
    <3>1. ~(Len(all) >= min) /\ Len(all) \in Nat
      BY <1>6, <1>10
    <3>2. kept = all
      BY SMTT(30), <1>10
    <3> HIDE DEF all, min, max, kept
    <3> QED
      BY <1>3, <1>5, <3>1, <3>2
  <2>2. g = [config |-> fs.config, rounds |-> fs.rounds,
             details |-> [fs.details EXCEPT ![r] = dk]]
    <3> HIDE DEF dk, kept, all, min, max
    <3>1. updated = [config |-> fs.config, rounds |-> fs.rounds,
                     details |-> [fs.details EXCEPT ![r] = None]]
      BY <1>1, <1>10
    <3>2. g = [updated EXCEPT !.details = [@ EXCEPT ![r] = dk]]
      BY <1>8, <2>1
    <3> QED
      BY <1>1, <3>1, <3>2
  <2>3. /\ g.config = fs.config /\ g.rounds = fs.rounds
        /\ g.details \in [RoundId -> Option(RoundDetails)]
        /\ g.details[r] = dk
        /\ \A q \in RoundId \ {r} : g.details[q] = fs.details[q]
    <3> HIDE DEF dk, g
    <3> QED
      BY <1>1, <1>9, <2>2 DEF Option
  <2> HIDE DEF g, dk
  <2>4. g \in FeedState
    BY <1>1, <2>2, <2>3 DEF FeedState
  <2>5. ASSUME NEW q \in RoundId
        PROVE  WellStored(g, q) /\ OpenOrAnswered(g, q)
    <3>1. WellStored(fs, q) /\ OpenOrAnswered(fs, q)
      BY DEF WellFormed
    <3>2. CASE q = r
      <4>1. WellStored(g, q)
        BY <3>1, <3>2, <1>2, <1>5, <1>9, <2>3 DEF WellStored
      <4>2. OpenOrAnswered(g, q)
        BY Zenon, <3>1, <3>2, <1>9, <2>1, <2>3 DEF OpenOrAnswered
      <4> QED
        BY <4>1, <4>2
    <3>3. CASE q # r
      BY <3>1, <3>3, <2>3 DEF WellStored, OpenOrAnswered
    <3> QED
      BY <3>2, <3>3
  <2>6. WellFormed(g)
    BY <2>3, <2>5 DEF WellFormed
  <2>7. Advances(fs, g)
    BY <1>1, <2>3 DEF Advances, FeedConfig, RoundId
  <2>8. Frozen(fs, g)
    BY <1>2, <2>3 DEF Frozen
  <2> QED
    BY <2>3, <2>4, <2>6, <2>7, <2>8 DEF g
<1>11. CASE isAnswered
  <2>1. median(kept) \in Value
    <3>1. Len(kept) > 0
      BY <1>6, <1>7
    <3> QED
      BY Zenon, <3>1, <1>7, MedianTyped
  <2> DEFINE u == UpdateAnswer(taken, r, median(kept), now)
  <2>2. /\ u \in FeedState
        /\ WellFormed(u)
        /\ u.config.reporting_round = fs.config.reporting_round
        /\ u.config.latest_round = r
        /\ u.config.debt = fs.config.debt
        /\ u.config.max_debt = fs.config.max_debt
        /\ Advances(fs, u)
        /\ u.rounds[r] # None
        /\ \A q \in RoundId \ {r} : /\ u.rounds[q] \in {fs.rounds[q], None}
                                    /\ u.details[q] \in {fs.details[q], None}
    <3>1. fs.details[r] # None
      BY <1>2
    <3> HIDE DEF taken, kept
    <3>2. taken = [fs EXCEPT !.details = [@ EXCEPT ![r] = None]]
      BY DEF taken
    <3> QED
      BY <2>1, <3>1, <3>2, UpdateAnswerKeeps
  <2>3. updated = u
    BY <1>11
  <2> HIDE DEF u, updated, dk, isAnswered, kept
  <2>4. CASE ~(Len(kept) < max)
    <3>1. g = u
      BY <1>8, <2>3, <2>4
    <3>2. Frozen(fs, u)
      BY <1>2, <2>2 DEF Frozen
    <3> QED
      BY <2>2, <3>1, <3>2
  <2>5. CASE Len(kept) < max
    <3>1. /\ u.config \in FeedConfig
          /\ u.rounds \in [RoundId -> Option(Round)]
          /\ u.details \in [RoundId -> Option(RoundDetails)]
          /\ u = [config |-> u.config, rounds |-> u.rounds, details |-> u.details]
      BY <2>2 DEF FeedState
    <3>2. g = [config |-> u.config, rounds |-> u.rounds,
               details |-> [u.details EXCEPT ![r] = dk]]
      BY <1>8, <2>3, <2>5, <3>1
    <3> HIDE DEF g
    <3>3. /\ g.config = u.config /\ g.rounds = u.rounds
          /\ g.details \in [RoundId -> Option(RoundDetails)]
          /\ g.details[r] = dk
          /\ \A q \in RoundId \ {r} : g.details[q] = u.details[q]
      BY <1>9, <3>1, <3>2 DEF Option
    <3>4. g \in FeedState
      BY <3>1, <3>2, <3>3 DEF FeedState
    <3>5. HasData(g.rounds[r])
      BY <2>2, <3>3 DEF WellFormed
    <3>6. ASSUME NEW q \in RoundId
          PROVE  WellStored(g, q) /\ OpenOrAnswered(g, q)
      <4>1. WellStored(u, q) /\ OpenOrAnswered(u, q)
        BY <2>2 DEF WellFormed
      <4>2. CASE q = r
        BY <4>1, <4>2, <1>4, <1>5, <1>9, <1>2, <2>2, <3>3, <3>5 DEF WellStored, OpenOrAnswered
      <4>3. CASE q # r
        BY <4>1, <4>3, <3>3 DEF WellStored, OpenOrAnswered
      <4> QED
        BY <4>2, <4>3
    <3>7. WellFormed(g)
      BY <2>2, <3>3, <3>6 DEF WellFormed
    <3>8. Advances(fs, g)
      BY <2>2, <3>3 DEF Advances
    <3>9. Frozen(fs, g)
      BY <1>2, <2>2, <3>3 DEF Frozen
    <3> QED
      BY <2>2, <3>3, <3>4, <3>7, <3>8, <3>9 DEF g
  <2> QED
    BY <2>4, <2>5
<1> QED
  BY <1>10, <1>11

\* submit accepts the value v of oracle o for round r and leaves the feed g.
Accepted(fs, o, r, v, now, g) ==
  /\ fs \in FeedState /\ WellFormed(fs)
  /\ now \in Nat /\ r \in RoundId /\ v \in Value
  /\ fs.config.reporting_round < RoundIdMax
  /\ ensure_valid_round(fs, o, r, now)
  /\ Starts(fs, o, r) => can_initialize_round(fs, r, now)
  /\ can_record_submission(StartIfDue(fs, o, r, now), r)
  /\ g = RecordSubmission(StartIfDue(fs, o, r, now), r, v, now)

\* submit on the feed as a whole: the round is started if it is due, then the
\* submission is recorded.  A submission that is accepted is never for a round
\* before the latest one.
LEMMA SubmitKeeps ==
  ASSUME NEW fs, NEW o, NEW r, NEW v, NEW now, NEW g, Accepted(fs, o, r, v, now, g)
  PROVE  /\ g \in FeedState
         /\ WellFormed(g)
         /\ Advances(fs, g)
         /\ Frozen(fs, g)
         /\ g.config.debt = fs.config.debt
         /\ g.config.max_debt = fs.config.max_debt
         /\ \/ g.config.reporting_round = fs.config.reporting_round
            \/ Starts(fs, o, r) /\ g.config.reporting_round = r
<1> SUFFICES ASSUME fs \in FeedState, WellFormed(fs), now \in Nat,
                    r \in RoundId, v \in Value,
                    fs.config.reporting_round < RoundIdMax,
                    ensure_valid_round(fs, o, r, now),
                    Starts(fs, o, r) => can_initialize_round(fs, r, now),
                    can_record_submission(StartIfDue(fs, o, r, now), r),
                    g = RecordSubmission(StartIfDue(fs, o, r, now), r, v, now)
             PROVE  /\ g \in FeedState
                    /\ WellFormed(g)
                    /\ Advances(fs, g)
                    /\ Frozen(fs, g)
                    /\ g.config.debt = fs.config.debt
                    /\ g.config.max_debt = fs.config.max_debt
                    /\ \/ g.config.reporting_round = fs.config.reporting_round
                       \/ Starts(fs, o, r) /\ g.config.reporting_round = r
  BY DEF Accepted
<1> DEFINE c == fs.config
           rep == fs.config.reporting_round
           s == StartIfDue(fs, o, r, now)
<1>1. /\ c \in FeedConfig /\ rep \in RoundId /\ c.latest_round \in RoundId
      /\ c.next_round_to_prune \in RoundId
      /\ c.latest_round <= rep
  BY DEF FeedState, FeedConfig, WellFormed
<1>2. Succ(rep) = rep + 1 /\ rep + 1 \in RoundId
  BY <1>1, RoundIdMaxAssumption DEF Succ, RoundId
<1>3. CASE Starts(fs, o, r)
  <2>1. r = rep + 1 /\ Pred(r) = rep
    BY <1>1, <1>2, <1>3 DEF Starts, Pred, RoundId
  <2>2. is_supersedable(fs, rep, now)
    BY <2>1, <1>1 DEF ensure_valid_round, is_supersedable, RoundId
  <2>3. s = initialize_round(fs, r, now)
    BY <1>3 DEF StartIfDue
  <2>4. /\ s \in FeedState /\ WellFormed(s) /\ Advances(fs, s) /\ Frozen(fs, s)
        /\ s.config = [fs.config EXCEPT !.reporting_round = r]
    BY <1>3, <2>1, <2>2, <2>3, InitializeKeeps
  <2> HIDE DEF s
  <2>5. /\ s.config.latest_round = c.latest_round
        /\ s.config.reporting_round = r
        /\ s.config.debt = c.debt /\ s.config.max_debt = c.max_debt
    BY <1>1, <2>4 DEF FeedConfig
  <2>6. s.config.latest_round <= r
    BY <1>1, <2>1, <2>5 DEF RoundId
  <2>7. can_record_submission(s, r) /\ g = RecordSubmission(s, r, v, now)
    BY DEF s
  <2>8. /\ g \in FeedState /\ WellFormed(g) /\ Advances(s, g) /\ Frozen(s, g)
        /\ g.config.reporting_round = s.config.reporting_round
        /\ g.config.debt = s.config.debt
        /\ g.config.max_debt = s.config.max_debt
    <3>1. s \in FeedState /\ WellFormed(s)
      BY <2>4
    <3> QED
      BY <2>6, <2>7, <3>1, RecordKeeps
  <2>9. Advances(fs, g)
    <3>1. /\ s.config.next_round_to_prune \in RoundId
          /\ g.config.next_round_to_prune \in RoundId /\ g.config.latest_round \in RoundId
      BY <2>4, <2>8 DEF FeedState, FeedConfig
    <3> QED
      BY <1>1, <2>1, <2>4, <2>5, <2>8, <3>1 DEF Advances, RoundId
  <2>10. Frozen(fs, g)
    <3> SUFFICES ASSUME NEW q \in RoundId, HasData(fs.rounds[q]), fs.details[q] = None
                 PROVE  g.rounds[q] \in {fs.rounds[q], None} /\ g.details[q] = None
      BY DEF Frozen
    <3>1. s.rounds[q] \in {fs.rounds[q], None} /\ s.details[q] = None
      BY <2>4 DEF Frozen
    <3>2. s.rounds[q] # None
      <4>1. WellStored(fs, q) /\ WellStored(s, q) /\ fs.rounds[q] # None
        BY <2>4 DEF WellFormed, HasData
      <4>2. s.config.next_round_to_prune = c.next_round_to_prune
        BY <1>1, <2>4 DEF FeedConfig
      <4> QED
        BY <4>1, <4>2, <1>1, <2>1, <2>5 DEF WellStored, RoundId
    <3> QED
      BY <2>8, <3>1, <3>2 DEF Frozen
  <2> QED
    BY <1>3, <2>5, <2>8, <2>9, <2>10
<1>4. CASE ~Starts(fs, o, r)
  <2>1. s = fs
    BY <1>4 DEF StartIfDue
  <2>2. can_record_submission(fs, r)
    BY <2>1
  <2>3. r # rep + 1
    <3>1. WellStored(fs, r) /\ fs.details[r] # None
      BY <2>2 DEF WellFormed, can_record_submission
    <3> QED
      BY <3>1, <1>1 DEF WellStored, RoundId
  <2>4. c.latest_round <= r
    <3>1. CASE r = rep
      BY <3>1, <1>1
    <3>2. CASE Succ(r) = rep /\ ~was_updated(fs, rep)
      <4>1. rep = r + 1
        BY <3>2, <1>1, RoundIdMaxAssumption DEF Succ, RoundId
      <4>2. c.latest_round # rep
        BY <3>2 DEF WellFormed, HasData, was_updated
      <4> QED
        BY <4>1, <4>2, <1>1 DEF RoundId
    <3> QED
      BY <3>1, <3>2, <1>2, <2>3 DEF ensure_valid_round
  <2>5. g = RecordSubmission(fs, r, v, now)
    BY <2>1
  <2> QED
    BY <2>2, <2>4, <2>5, RecordKeeps
<1> QED
  BY <1>3, <1>4
=============================================================================
