--------------------------- MODULE BalancesProofs ---------------------------
(***************************************************************************)
(* The operations of pallet_balances give balances: no free and no         *)
(* reserved balance becomes negative, over any set A of accounts.          *)
(***************************************************************************)
EXTENDS Balances, TLAPS

\* A reservation that the free balance covers.
LEMMA ReserveTyped ==
  ASSUME NEW A, NEW b \in [A -> AccountData], NEW who \in A,
         NEW value \in Nat, CanReserve(b, who, value)
  PROVE  Reserve(b, who, value) \in [A -> AccountData]
<1>1. /\ b[who].free \in Nat /\ b[who].reserved \in Nat
      /\ b[who].free - value \in Nat
  BY DEF CanReserve, AccountData
<1>2. [free |-> b[who].free - value, reserved |-> b[who].reserved + value] \in AccountData
  BY <1>1 DEF AccountData
<1> QED
  BY <1>2 DEF Reserve

\* An unreserve of any amount.
LEMMA UnreserveTyped ==
  ASSUME NEW A, NEW b \in [A -> AccountData], NEW who \in A,
         NEW value \in Nat
  PROVE  Unreserve(b, who, value) \in [A -> AccountData]
<1> DEFINE actual == Min2(value, b[who].reserved)
<1>1. /\ b[who].free \in Nat /\ b[who].reserved \in Nat
  BY DEF AccountData
<1>2. actual \in Nat /\ b[who].reserved - actual \in Nat
  BY <1>1 DEF Min2
<1>3. [free |-> b[who].free + actual, reserved |-> b[who].reserved - actual] \in AccountData
  <2> HIDE DEF actual
  <2> QED
    BY <1>1, <1>2 DEF AccountData
<1> QED
  BY <1>3 DEF Unreserve

\* A transfer that keeps both accounts alive.
LEMMA TransferTyped ==
  ASSUME NEW A, NEW b \in [A -> AccountData], NEW from \in A,
         NEW to \in A, NEW value \in Nat, CanTransfer(b, from, to, value)
  PROVE  Transfer(b, from, to, value) \in [A -> AccountData]
<1>1. CASE NoTransfer(from, to, value)
  BY <1>1 DEF Transfer
<1>2. CASE ~NoTransfer(from, to, value)
  <2>1. /\ b[from].free \in Nat /\ b[from].reserved \in Nat
        /\ b[to].free \in Nat /\ b[to].reserved \in Nat
    BY DEF AccountData
  <2>2. b[from].free - value \in Nat
    BY <1>2, <2>1 DEF CanTransfer
  <2>3. /\ [free |-> b[from].free - value, reserved |-> b[from].reserved] \in AccountData
        /\ [free |-> b[to].free + value, reserved |-> b[to].reserved] \in AccountData
    BY <2>1, <2>2 DEF AccountData
  <2> QED
    BY <1>2, <2>3 DEF Transfer
<1> QED
  BY <1>1, <1>2

\* A payment out of the reserve of one account to another, or the same.
LEMMA RepatriateTyped ==
  ASSUME NEW A, NEW b \in [A -> AccountData], NEW from \in A, NEW to \in A,
         NEW value \in Nat
  PROVE  Repatriate(b, from, to, value) \in [A -> AccountData]
<1> DEFINE actual == Min2(value, b[from].reserved)
<1>1. CASE from = to
  BY <1>1, UnreserveTyped DEF Repatriate
<1>2. CASE from # to
  <2>1. /\ b[from].free \in Nat /\ b[from].reserved \in Nat
        /\ b[to].free \in Nat /\ b[to].reserved \in Nat
    BY DEF AccountData
  <2>2. actual \in Nat /\ b[from].reserved - actual \in Nat
    BY <2>1 DEF Min2
  <2>3. Repatriate(b, from, to, value) =
          [b EXCEPT ![from] = [free |-> b[from].free, reserved |-> b[from].reserved - actual],
                    ![to]   = [free |-> b[to].free + actual, reserved |-> b[to].reserved]]
    BY <1>2 DEF Repatriate
  <2> HIDE DEF actual
  <2>4. /\ [free |-> b[from].free, reserved |-> b[from].reserved - actual] \in AccountData
        /\ [free |-> b[to].free + actual, reserved |-> b[to].reserved] \in AccountData
    BY <2>1, <2>2 DEF AccountData
  <2> QED
    BY <2>3, <2>4
<1> QED
  BY <1>1, <1>2
=============================================================================
