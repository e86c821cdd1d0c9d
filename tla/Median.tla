------------------------------- MODULE Median -------------------------------
(***************************************************************************)
(* The median of the submissions of a round (utils.rs).  The code sorts    *)
(* the slice in place and averages the two middle elements of an even one  *)
(* with a saturating addition of the value type.                           *)
(***************************************************************************)
EXTENDS Integers, Sequences, FiniteSets

CONSTANT ValueMax   \* the largest number of the unsigned type Value

ASSUME ValueMaxAssumption == ValueMax \in Nat

Value == 0 .. ValueMax

saturating_add(x, y) == IF x + y <= ValueMax THEN x + y ELSE ValueMax

(***************************************************************************)
(* The k-th smallest element of s: fewer than k elements are below it, at  *)
(* least k are not above it.                                               *)
(***************************************************************************)
Below(s, v) == {i \in DOMAIN s : s[i] < v}
UpTo(s, v) == {i \in DOMAIN s : s[i] <= v}

IsKthSmallest(s, k, v) ==
  /\ Cardinality(Below(s, v)) < k
  /\ k <= Cardinality(UpTo(s, v))

KthSmallest(s, k) == CHOOSE v \in Value : IsKthSmallest(s, k, v)

\* What sort_unstable leaves in the slice.
sort_unstable(s) == [k \in 1 .. Len(s) |-> KthSmallest(s, k)]

\* Mutant: the average of the two middle elements without the division.
median_unhalved(sorted) ==
  saturating_add(sorted[(Len(sorted) + 1) \div 2], sorted[(Len(sorted) \div 2) + 1])

(***************************************************************************)
(* median of a sorted, non-empty slice.  TLA+ sequences start at 1, so     *)
(* numbers[mid] is sorted[mid + 1].                                        *)
(***************************************************************************)
median(sorted) ==
  LET mid == Len(sorted) \div 2
  IN IF Len(sorted) % 2 = 0
     THEN saturating_add(sorted[mid], sorted[mid + 1]) \div 2
     ELSE sorted[mid + 1]
=============================================================================
