------------------------------- MODULE MCFlux -------------------------------
EXTENDS FluxAggregator, TLC

\* [1, 1, 2] is refused for two oracles.
MCQuorums == {[min |-> 0, max |-> 0, delay |-> 0], [min |-> 1, max |-> 1, delay |-> 0],
              [min |-> 1, max |-> 1, delay |-> 2], [min |-> 1, max |-> 2, delay |-> 1]}

Symmetric == Permutations(Oracles)

\* The third round is explored further only when no requester is set.
ThirdRound ==
  reportingRoundId < 3 \/ \A who \in Requesters : ~ requesters[who].authorized

\* The hand-over of an oracle, here to the same admin, is explored further only
\* before the first round: the rounds do not depend on the admins.
EarlyHandOver ==
  reportingRoundId = 0 \/ \A o \in Oracles : oracles[o].pendingAdmin = None
=============================================================================
