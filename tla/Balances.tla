------------------------------ MODULE Balances ------------------------------
(***************************************************************************)
(* The part of Substrate's pallet_balances that the two pallets use        *)
(* through the Currency and ReservableCurrency traits.  That pallet is not *)
(* part of this repository: the operators below are modelled from its use. *)
(*                                                                         *)
(* An account's entry is a record of its free and its reserved balance.    *)
(* Every operator takes the whole balances function `b' and gives the next *)
(* one; the Can... operators say when the call returns Ok.                 *)
(***************************************************************************)
EXTENDS Integers

CONSTANT
  ExistentialDeposit

ASSUME ExistentialDepositAssumption == ExistentialDeposit \in Nat

AccountData == [free : Nat, reserved : Nat]

Total(entry) == entry.free + entry.reserved

Min2(x, y) == IF x <= y THEN x ELSE y

(***************************************************************************)
(* reserve: moves value from free to reserved, or fails.                   *)
(***************************************************************************)
CanReserve(b, who, value) == value <= b[who].free

Reserve(b, who, value) ==
  [b EXCEPT ![who] = [free     |-> b[who].free - value,
                      reserved |-> b[who].reserved + value]]

(***************************************************************************)
(* unreserve: moves up to value from reserved back to free.  Never fails.  *)
(***************************************************************************)
Unreserve(b, who, value) ==
  LET actual == Min2(value, b[who].reserved)
  IN [b EXCEPT ![who] = [free     |-> b[who].free + actual,
                         reserved |-> b[who].reserved - actual]]

(***************************************************************************)
(* repatriate_reserved with BalanceStatus::Free: moves up to value from    *)
(* the reserve of an account to the free balance of one that exists.       *)
(***************************************************************************)
CanRepatriate(b, from, to) == from = to \/ Total(b[to]) > 0

Repatriate(b, from, to, value) ==
  LET actual == Min2(value, b[from].reserved)
  IN IF from = to
     THEN Unreserve(b, from, value)
     ELSE [b EXCEPT ![from] = [free     |-> b[from].free,
                               reserved |-> b[from].reserved - actual],
                    ![to]   = [free     |-> b[to].free + actual,
                               reserved |-> b[to].reserved]]

(***************************************************************************)
(* transfer with ExistenceRequirement::KeepAlive: the recipient must end   *)
(* with the existential deposit, and so must the sender.                   *)
(***************************************************************************)
NoTransfer(from, to, value) == value = 0 \/ from = to

CanTransfer(b, from, to, value) ==
  \/ NoTransfer(from, to, value)
  \/ /\ value <= b[from].free
     /\ Total(b[to]) + value >= ExistentialDeposit
     /\ Total(b[from]) - value >= ExistentialDeposit

Transfer(b, from, to, value) ==
  IF NoTransfer(from, to, value)
  THEN b
  ELSE [b EXCEPT ![from] = [free     |-> b[from].free - value,
                            reserved |-> b[from].reserved],
                 ![to]   = [free     |-> b[to].free + value,
                            reserved |-> b[to].reserved]]
=============================================================================
