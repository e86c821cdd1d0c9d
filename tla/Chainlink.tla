------------------------------ MODULE Chainlink ------------------------------
(***************************************************************************)
(* pallet-chainlink: requests to operators and their answers, together     *)
(* with the example pallet of the node that sends requests and receives    *)
(* the results.                                                            *)
(*                                                                         *)
(* A variable is a storage item and has its name, or is frame_system's or  *)
(* pallet_balances' part of the state; `events' is the set of the events   *)
(* deposited so far.  Extrinsics of this pallet are not transactional: an  *)
(* error after a write leaves the write.                                   *)
(***************************************************************************)
EXTENDS Integers, FiniteSets, FiniteSetsExt, Balances

CONSTANTS
  Accounts, None,
  ValidityPeriod,
  IdCount,            \* the number of request identifiers, 2^64
  GenesisFree,
  Fees,               \* the fees offered; example.rs always offers the same
  Calls,              \* the calls given as callbacks
  Results,            \* the results that decode to an i128
  Malformed,          \* a result that does not
  MaxRequests,        \* bound: requests made
  MaxRequestBlock,    \* bound: the last block in which a request is made
  MaxBlock            \* bound: the last block

ASSUME ChainlinkAssumption ==
  /\ IsFiniteSet(Accounts)
  /\ ValidityPeriod \in Nat
  /\ IdCount \in Nat \ {0}
  /\ GenesisFree \in [Accounts -> Nat]
  /\ Fees \subseteq Nat
  /\ Calls \subseteq {"callback", "send_request"}
  /\ MaxRequests \in Nat /\ MaxRequests < IdCount
  /\ MaxRequestBlock \in Nat /\ MaxBlock \in Nat
  /\ Malformed \notin Results

RequestIdentifier == 0 .. IdCount - 1

\* The tuple (operator, callback, block, fee) of a running request.
Request == [operator : Accounts, callback : Calls, at : Nat, fee : Nat]

ASSUME NoRequestAssumption == None \notin Request

Event == [event : {"OracleRequest", "OracleAnswer", "KillRequest"},
          id : RequestIdentifier, who : Accounts \cup {None}, fee : Nat]
         \cup [event : {"OperatorRegistered", "OperatorUnregistered"}, who : Accounts]

VARIABLES
  block_number, balances, events,
  Operators, NextRequestIdentifier, Requests,
  Result              \* of the example pallet

vars == <<block_number, balances, events, Operators, NextRequestIdentifier,
          Requests, Result>>

Init ==
  /\ block_number = 1
  /\ balances = [a \in Accounts |-> [free |-> GenesisFree[a], reserved |-> 0]]
  /\ events = {}
  /\ Operators = {}
  /\ NextRequestIdentifier = 0
  /\ Requests = [id \in RequestIdentifier |-> None]
  /\ Result = 0

register_operator(who) ==
  /\ who \notin Operators
  /\ Operators' = Operators \cup {who}
  /\ events' = events \cup {[event |-> "OperatorRegistered", who |-> who]}
  /\ UNCHANGED <<block_number, balances, NextRequestIdentifier, Requests, Result>>

unregister_operator(who) ==
  /\ who \in Operators
  /\ Operators' = Operators \ {who}
  /\ events' = events \cup {[event |-> "OperatorUnregistered", who |-> who]}
  /\ UNCHANGED <<block_number, balances, NextRequestIdentifier, Requests, Result>>

\* Mutant: the identifier of the next request is not advanced.
next_identifier_stuck(id) == id

\* `request_id + 1' in the width of the identifier.
next_identifier(id) == (id + 1) % IdCount

\* Mutant: the fee is reserved before the operator is looked up.
initiate_request_reserves_first(who, operator, fee, callback) ==
  /\ block_number <= MaxRequestBlock
  /\ fee > 0
  /\ CanReserve(balances, who, fee)
  /\ balances' = Reserve(balances, who, fee)
  /\ operator \notin Operators
  /\ UNCHANGED <<block_number, events, Operators, NextRequestIdentifier, Requests, Result>>

(***************************************************************************)
(* The fee is reserved on the account that makes the request, which the    *)
(* stored request does not name.                                           *)
(***************************************************************************)
initiate_request(who, operator, fee, callback) ==
  LET id == NextRequestIdentifier
  IN /\ block_number <= MaxRequestBlock
     /\ id < MaxRequests
     /\ operator \in Operators
     /\ fee > 0
     /\ CanReserve(balances, who, fee)
     /\ balances' = Reserve(balances, who, fee)
     /\ NextRequestIdentifier' = next_identifier(id)
     /\ Requests' = [Requests EXCEPT ![id] =
                       [operator |-> operator, callback |-> callback,
                        at |-> block_number, fee |-> fee]]
     /\ events' = events \cup
          {[event |-> "OracleRequest", id |-> id, who |-> who, fee |-> fee]}
     /\ UNCHANGED <<block_number, Operators, Result>>

\* The callback of the example pallet, dispatched by root: a result that does
\* not decode is an error, which the dispatching extrinsic ignores.
Dispatched(result) == IF result \in Results THEN result ELSE Result

(***************************************************************************)
(* callback.  The fee is repatriated from `who' to the operator, which the *)
(* check before it has made the same account.  A call that takes no result *)
(* is an error (UnknownCallback), after that write.  The request stays.    *)
(***************************************************************************)
callback(who, id, result) ==
  LET request == Requests[id]
      settled == Repatriate(balances, who, request.operator, request.fee)
  IN /\ request # None
     /\ request.operator = who
     /\ CanRepatriate(balances, who, request.operator)
     /\ balances' = settled
     /\ \/ /\ request.callback = "callback"
           /\ Result' = Dispatched(result)
           /\ events' = events \cup
                {[event |-> "OracleAnswer", id |-> id, who |-> who,
                  fee |-> request.fee]}
        \/ /\ request.callback # "callback"
           /\ UNCHANGED <<Result, events>>
     /\ UNCHANGED <<block_number, Operators, NextRequestIdentifier, Requests>>

\* Mutant: a request lives one block too long.
dead_late(request, n) == request # None /\ n > request.at + ValidityPeriod + 1

dead(request, n) == request # None /\ n > request.at + ValidityPeriod

\* on_finalize of the block, and the next block.
on_finalize ==
  LET killed == {id \in RequestIdentifier : dead(Requests[id], block_number)}
  IN /\ block_number < MaxBlock
     /\ block_number' = block_number + 1
     /\ Requests' = [id \in RequestIdentifier |->
                       IF id \in killed THEN None ELSE Requests[id]]
     /\ events' = events \cup
          {[event |-> "KillRequest", id |-> id, who |-> None, fee |-> 0] : id \in killed}
     /\ UNCHANGED <<balances, Operators, NextRequestIdentifier, Result>>

Next ==
  \/ \E who \in Accounts : register_operator(who) \/ unregister_operator(who)
  \/ \E who, operator \in Accounts, fee \in Fees, call \in Calls :
       initiate_request(who, operator, fee, call)
  \/ \E who \in Accounts, id \in RequestIdentifier, result \in Results \cup {Malformed} :
       callback(who, id, result)
  \/ on_finalize

Spec == Init /\ [][Next]_vars

-----------------------------------------------------------------------------
\* Every storage item holds a value of its Rust type.
TypeOK ==
  /\ block_number \in Nat
  /\ balances \in [Accounts -> AccountData]
  /\ events \subseteq Event
  /\ Operators \subseteq Accounts
  /\ NextRequestIdentifier \in RequestIdentifier
  /\ Requests \in [RequestIdentifier -> Request \cup {None}]
  /\ Result \in Results \cup {0}

KeptOrExpired(id) ==
  Requests[id] # None =>
    \/ Requests'[id] = Requests[id]
    \/ /\ Requests'[id] = None
       /\ block_number > Requests[id].at + ValidityPeriod

\* A request keeps its operator, callback, block and fee from initiate_request
\* until its validity period is over: no later request takes its identifier,
\* no answer and no early end of block removes it.
RequestsAreStable == [][\A id \in RequestIdentifier : KeptOrExpired(id)]_vars

KillRequest(id) == [event |-> "KillRequest", id |-> id, who |-> None, fee |-> 0]

\* on_finalize: a request that is still there can be answered no later than in
\* the block after its validity period, and one that is gone was killed.
ExpiredRequestsAreKilled ==
  \A e \in events : e.event = "OracleRequest" =>
    /\ Requests[e.id] # None <=> KillRequest(e.id) \notin events
    /\ Requests[e.id] # None => block_number <= Requests[e.id].at + ValidityPeriod + 1

\* The inductive invariant behind these: identifiers are given out in order,
\* and a running request is young enough and not killed.
IInv ==
  /\ TypeOK
  /\ NextRequestIdentifier <= MaxRequests
  /\ \A id \in RequestIdentifier :
       /\ id >= NextRequestIdentifier =>
            Requests[id] = None /\ KillRequest(id) \notin events
       /\ Requests[id] # None =>
            /\ KillRequest(id) \notin events
            /\ block_number <= Requests[id].at + ValidityPeriod + 1
  /\ \A e \in events : e.event = "OracleRequest" =>
       Requests[e.id] # None \/ KillRequest(e.id) \in events

RequestsOf(a) == {e \in events : e.event = "OracleRequest" /\ e.who = a}

Answered(id) == \E e \in events : e.event = "OracleAnswer" /\ e.id = id

Fee(e) == e.fee

Offered(a) == MapThenSumSet(Fee, RequestsOf(a))

\* The fees of the requests of account a that are running, wait for a result
\* and have none.
Outstanding(a) ==
  MapThenSumSet(Fee, {e \in RequestsOf(a) : /\ Requests[e.id] # None
                                            /\ Requests[e.id].callback = "callback"
                                            /\ ~ Answered(e.id)})

WasOperator(a) == [event |-> "OperatorRegistered", who |-> a] \in events

\* "Corresponding fee payment is reserved": the reserve of an account is never
\* more than the fees of the requests it made, and covers at least those that
\* are outstanding, as long as it has not been an operator itself: no call of
\* another account, and no error after a write, touches them before the answer.
ReserveCoversRequests ==
  \A a \in Accounts :
    /\ balances[a].reserved <= Offered(a)
    /\ ~WasOperator(a) => Outstanding(a) <= balances[a].reserved

\* "A request has been answered. Corresponding fee payment is transferred": the
\* step that deposits OracleAnswer for a request of another account raises the
\* balance of the operator by the fee.
AnswersArePaid ==
  [][\A e \in events' \ events, request \in events :
       /\ e.event = "OracleAnswer"
       /\ request.event = "OracleRequest"
       /\ request.id = e.id
       /\ request.who # e.who
       => Total(balances'[e.who]) = Total(balances[e.who]) + e.fee]_vars
=============================================================================
