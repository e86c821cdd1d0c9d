----------------------------- MODULE MCFluxData -----------------------------
EXTENDS FluxData, TLC

MCQuorums == {[min |-> 0, max |-> 0, delay |-> 0], [min |-> 1, max |-> 1, delay |-> 0]}

Symmetric == Permutations(Oracles) \cup Permutations(Admins)

\* The oracles that were ever added.
Known == {o \in Oracles : oracles[o].admin # None}

\* GetContractData, and the change of an admin, are explored with one oracle each,
\* all the rest with two.  A ceiling above 2 * MaxLink cannot be exceeded.
OneOracle ==
  LET reads == data.pc # "idle"
      changes == \E o \in Oracles : oracles[o].pendingAdmin # None
  IN /\ reads \/ changes => Cardinality(Known) <= 1 /\ link <= 3
     /\ ~ (reads /\ changes)
     /\ data.pc # "returned"
     /\ ceiling <= 2 * MaxLink
=============================================================================
