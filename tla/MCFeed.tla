-------------------------------- MODULE MCFeed --------------------------------
(***************************************************************************)
(* Instances of ChainlinkFeed for TLC.  alice is the genesis admin and     *)
(* creator, and with bob takes the part of feed owners, admins and         *)
(* requesters; o1, o2 and o3 are oracles, fund is the account of the       *)
(* pallet.  Each .cfg chooses among the definitions below.                 *)
(***************************************************************************)
EXTENDS ChainlinkFeed, TLC

CONSTANTS alice, bob, o1, o2, o3, fund

\* The lists of all oracles in every order, alice being the admin of each.
AdminAlice(list) == [i \in DOMAIN list |-> <<list[i], alice>>]
Orders(oracles) == {s \in [1 .. Cardinality(oracles) -> oracles] :
                      \A i, j \in DOMAIN s : s[i] = s[j] => i = j}
OneOracle == {AdminAlice(<<o1>>)}
TwoOracles == {AdminAlice(s) : s \in Orders({o1, o2})}
ThreeOracles == {AdminAlice(s) : s \in Orders({o1, o2, o3})}

\* Lists to add and to disable: two accounts each claim to be the admin of o1,
\* and one list names o1 twice.
RivalAdmins == {<<>>, << <<o1, alice>> >>, << <<o1, bob>> >>,
                << <<o1, alice>>, <<o2, alice>> >>}
Removals == {<<>>, <<o1>>, <<o2>>, <<o1, o1>>}

NoLists == {}

OneOfOne == {<<1, 1>>}
OneOrTwoOfTwo == {<<1, 2>>, <<2, 2>>}
TwoOfThree == {<<2, 3>>}

\* Two values within <<5, 5>> have a sum beyond a ValueMax of 8.
UpTo4 == {<<0, 4>>}
LowAndHigh == {<<2, 4>>, <<5, 5>>}

NoFunds == [a \in Accounts |-> 0]
SmallFund == [a \in Accounts |-> IF a \in {fund, alice} THEN 2 ELSE 0]

\* A second feed and a restart delay are each explored further only without the
\* other and with the pallet's own roles as they were at first, the second feed
\* only before the first round.
OneAtATime ==
  LET delayed == \E f \in LiveFeeds : Feeds[f].restart_delay > 0
  IN /\ FeedCounter > 1 => ~ delayed /\ \A f \in LiveFeeds : Feeds[f].reporting_round = 0
     /\ FeedCounter > 1 \/ delayed =>
          <<PalletAdmin, PendingPalletAdmin, FeedCreators>> = <<alice, None, {alice}>>

\* o1 and o2 (and o3) play the same part where they are admitted in every order.
TwoAlike == Permutations({o1, o2})
ThreeAlike == Permutations({o1, o2, o3})
=============================================================================
