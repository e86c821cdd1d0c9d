--------------------------- MODULE ChainlinkProofs ---------------------------
(***************************************************************************)
(* Proofs about pallet-chainlink for all accounts, fees, validity periods  *)
(* and numbers of requests: the type invariant, and that a request lives   *)
(* unchanged from initiate_request until on_finalize kills it.             *)
(***************************************************************************)
EXTENDS Chainlink, BalancesProofs

\* Identifiers do not wrap before they are used up.
LEMMA NextIdentifier ==
  ASSUME NEW id \in RequestIdentifier, id < MaxRequests
  PROVE  next_identifier(id) = id + 1 /\ id + 1 \in RequestIdentifier
<1>1. id \in Nat /\ IdCount \in Nat /\ id + 1 < IdCount
  BY ChainlinkAssumption DEF RequestIdentifier
<1>2. \A n, m \in Nat : n < m => n % m = n
  OBVIOUS
<1>3. (id + 1) % IdCount = id + 1
  BY <1>1, <1>2
<1> QED
  BY <1>1, <1>3 DEF next_identifier, RequestIdentifier

\* The part of the invariant about the request id.
RequestInv(id) ==
  /\ id >= NextRequestIdentifier => Requests[id] = None /\ KillRequest(id) \notin events
  /\ Requests[id] # None =>
       /\ KillRequest(id) \notin events
       /\ block_number <= Requests[id].at + ValidityPeriod + 1

\* The inductive invariant as its parts.
LEMMA IInvSplit ==
  IInv <=> /\ TypeOK
           /\ NextRequestIdentifier <= MaxRequests
           /\ \A id \in RequestIdentifier : RequestInv(id)
           /\ \A e \in events : e.event = "OracleRequest" =>
                Requests[e.id] # None \/ KillRequest(e.id) \in events
BY DEF IInv, RequestInv

\* The genesis state satisfies the inductive invariant.
LEMMA InitIInv == Init => IInv
<1> SUFFICES ASSUME Init PROVE IInv
  OBVIOUS
<1>1. TypeOK
  BY ChainlinkAssumption DEF Init, TypeOK, AccountData, RequestIdentifier
<1>2. NextRequestIdentifier <= MaxRequests
  BY ChainlinkAssumption DEF Init
<1> QED
  BY <1>1, <1>2 DEF Init, IInv

\* Registering and unregistering operators leave the requests alone.
LEMMA RegisterStep ==
  ASSUME IInv, NEW who \in Accounts, register_operator(who) \/ unregister_operator(who)
  PROVE  IInv'
<1>1. UNCHANGED <<block_number, balances, NextRequestIdentifier, Requests, Result>>
  BY DEF register_operator, unregister_operator
<1>2. PICK e \in [event : {"OperatorRegistered", "OperatorUnregistered"}, who : Accounts] :
        events' = events \cup {e}
  BY Zenon DEF register_operator, unregister_operator
<1>3. Operators' \subseteq Accounts
  BY DEF register_operator, unregister_operator, IInv, TypeOK
<1>4. e \in Event /\ e.event # "OracleRequest"
  BY DEF Event
<1>5. \A id : KillRequest(id) # e
  BY DEF KillRequest
<1>6. \A id : KillRequest(id)' = KillRequest(id)
  BY DEF KillRequest
<1>7. TypeOK'
  BY <1>1, <1>2, <1>3, <1>4 DEF IInv, TypeOK
<1>8. \A id \in RequestIdentifier : RequestInv(id)'
  BY <1>1, <1>2, <1>5, <1>6, IInvSplit DEF RequestInv
<1> QED
  BY <1>1, <1>2, <1>4, <1>6, <1>7, <1>8 DEF IInv, RequestInv

\* initiate_request adds one running request under a new identifier.
LEMMA InitiateStep ==
  ASSUME IInv, NEW who \in Accounts, NEW operator \in Accounts, NEW fee \in Fees,
         NEW call \in Calls, initiate_request(who, operator, fee, call)
  PROVE  IInv'
<1>0. PICK id : id = NextRequestIdentifier
  OBVIOUS
<1> DEFINE request == [operator |-> operator, callback |-> call,
                       at |-> block_number, fee |-> fee]
           e == [event |-> "OracleRequest", id |-> id, who |-> who, fee |-> fee]
<1>1. /\ id < MaxRequests
      /\ CanReserve(balances, who, fee)
      /\ balances' = Reserve(balances, who, fee)
      /\ NextRequestIdentifier' = next_identifier(id)
      /\ Requests' = [Requests EXCEPT ![id] = request]
      /\ events' = events \cup {e}
      /\ UNCHANGED <<block_number, Operators, Result>>
  BY <1>0 DEF initiate_request
<1>2. id \in RequestIdentifier /\ id \in Nat /\ block_number \in Nat /\ fee \in Nat
  BY <1>0, ChainlinkAssumption DEF IInv, TypeOK, RequestIdentifier
<1>3. NextRequestIdentifier' = id + 1 /\ NextRequestIdentifier' \in RequestIdentifier
  BY <1>1, <1>2, NextIdentifier
<1>4. request \in Request /\ request # None /\ request.at = block_number
  BY <1>2, NoRequestAssumption DEF Request
<1>5. e \in Event /\ e.event = "OracleRequest" /\ e.id = id
  BY <1>2 DEF Event
<1> HIDE DEF request
<1>6. /\ Requests'[id] = request
      /\ \A j \in RequestIdentifier \ {id} : Requests'[j] = Requests[j]
  BY <1>1, <1>2 DEF IInv, TypeOK
<1>7. \A j : KillRequest(j) # e
  BY DEF KillRequest
<1>8. \A j : KillRequest(j)' = KillRequest(j)
  BY DEF KillRequest
<1> HIDE DEF e
<1>9. TypeOK'
  <2>1. balances' \in [Accounts -> AccountData]
    BY <1>1, <1>2, ReserveTyped DEF IInv, TypeOK
  <2>2. Requests' \in [RequestIdentifier -> Request \cup {None}]
    BY Zenon, <1>1, <1>4 DEF IInv, TypeOK
  <2> QED
    BY <1>1, <1>3, <1>5, <2>1, <2>2 DEF IInv, TypeOK
<1>10. NextRequestIdentifier' <= MaxRequests
  BY <1>1, <1>2, <1>3, ChainlinkAssumption
<1>11. ASSUME NEW j \in RequestIdentifier PROVE RequestInv(j)'
  <2>1. RequestInv(j) /\ j \in Int
    BY IInvSplit DEF RequestIdentifier
  <2>2. CASE j = id
    <3>1. KillRequest(id) \notin events
      BY <1>0, <1>2, <2>1, <2>2 DEF RequestInv
    <3>2. KillRequest(id)' \notin events'
      BY <1>1, <1>7, <1>8, <3>1
    <3>3. ~(j >= NextRequestIdentifier')
      BY <1>2, <1>3, <2>2
    <3>4. block_number' <= Requests'[j].at + ValidityPeriod + 1
      BY <1>1, <1>2, <1>4, <1>6, <2>2, ChainlinkAssumption
    <3> QED
      BY <2>2, <3>2, <3>3, <3>4 DEF RequestInv
  <2>3. CASE j # id
    <3>1. j >= NextRequestIdentifier' => j >= NextRequestIdentifier
      BY <1>0, <1>2, <1>3, <2>1
    <3>2. KillRequest(j)' \notin events' <=> KillRequest(j) \notin events
      BY <1>1, <1>7, <1>8
    <3>3. block_number' = block_number /\ Requests'[j] = Requests[j]
      BY <1>1, <1>6, <2>3
    <3> QED
      BY <2>1, <3>1, <3>2, <3>3 DEF RequestInv
  <2> QED
    BY <2>2, <2>3
<1>12. ASSUME NEW d \in events', d.event = "OracleRequest"
       PROVE  Requests'[d.id] # None \/ KillRequest(d.id)' \in events'
  <2>1. CASE d = e
    BY <1>4, <1>5, <1>6, <2>1
  <2>2. CASE d \in events
    <3>1. d.id \in RequestIdentifier
      BY <1>12, <2>2 DEF IInv, TypeOK, Event
    <3>2. Requests[d.id] # None \/ KillRequest(d.id) \in events
      BY <1>12, <2>2 DEF IInv
    <3> QED
      BY <1>1, <1>4, <1>6, <1>8, <3>1, <3>2
  <2> QED
    BY <1>1, <2>1, <2>2
<1> QED
  BY <1>9, <1>10, <1>11, <1>12 DEF IInv, RequestInv

\* callback neither removes nor changes a request.
LEMMA CallbackStep ==
  ASSUME IInv, NEW who \in Accounts, NEW id \in RequestIdentifier,
         NEW result \in Results \cup {Malformed}, callback(who, id, result)
  PROVE  IInv'
<1> DEFINE request == Requests[id]
           e == [event |-> "OracleAnswer", id |-> id, who |-> who, fee |-> request.fee]
<1>1. /\ request # None /\ request.operator = who
      /\ balances' = Repatriate(balances, who, request.operator, request.fee)
      /\ \/ Result' = Dispatched(result) /\ events' = events \cup {e}
         \/ Result' = Result /\ events' = events
      /\ UNCHANGED <<block_number, Operators, NextRequestIdentifier, Requests>>
  BY DEF callback
<1>2. request \in Request /\ request.fee \in Nat
  BY <1>1 DEF IInv, TypeOK, Request
<1> HIDE DEF request
<1>3. balances' \in [Accounts -> AccountData]
  BY <1>1, <1>2, RepatriateTyped DEF IInv, TypeOK
<1>4. Result' \in Results \cup {0}
  BY <1>1 DEF Dispatched, IInv, TypeOK
<1>5. e \in Event /\ e.event # "OracleRequest"
  BY <1>2 DEF Event
<1>6. \A j : KillRequest(j) # e
  BY DEF KillRequest
<1>7. \A j : KillRequest(j)' = KillRequest(j)
  BY DEF KillRequest
<1> HIDE DEF e
<1>8. TypeOK'
  BY <1>1, <1>3, <1>4, <1>5 DEF IInv, TypeOK
<1>9. \A j : KillRequest(j)' \in events' <=> KillRequest(j) \in events
  BY <1>1, <1>6, <1>7
<1>10. \A j \in RequestIdentifier : RequestInv(j)'
  BY <1>1, <1>9, IInvSplit DEF RequestInv
<1>11. ASSUME NEW d \in events', d.event = "OracleRequest"
       PROVE  Requests'[d.id] # None \/ KillRequest(d.id)' \in events'
  <2>1. d \in events
    BY <1>1, <1>5, <1>11
  <2> QED
    BY <1>1, <1>9, <1>11, <2>1 DEF IInv
<1> QED
  BY <1>1, <1>8, <1>10, <1>11 DEF IInv, RequestInv

\* on_finalize kills the requests that are too old and keeps the others.
LEMMA FinalizeStep ==
  ASSUME IInv, on_finalize
  PROVE  IInv'
<1> DEFINE killed == {id \in RequestIdentifier : dead(Requests[id], block_number)}
<1>1. /\ block_number' = block_number + 1
      /\ Requests' = [id \in RequestIdentifier |->
                        IF id \in killed THEN None ELSE Requests[id]]
      /\ events' = events \cup {KillRequest(id) : id \in killed}
      /\ UNCHANGED <<balances, Operators, NextRequestIdentifier, Result>>
  BY DEF on_finalize, KillRequest
<1>2. \A id \in killed : id \in RequestIdentifier /\ Requests[id] # None
  BY DEF dead
<1>3. \A id \in RequestIdentifier \ killed :
        Requests[id] # None => block_number + 1 <= Requests[id].at + ValidityPeriod + 1
  <2> SUFFICES ASSUME NEW id \in RequestIdentifier, ~dead(Requests[id], block_number),
                      Requests[id] # None
               PROVE  block_number + 1 <= Requests[id].at + ValidityPeriod + 1
    OBVIOUS
  <2>1. Requests[id] \in Request /\ block_number \in Nat
    BY DEF IInv, TypeOK
  <2>2. Requests[id].at \in Nat
    BY <2>1 DEF Request
  <2> QED
    BY <2>1, <2>2, ChainlinkAssumption DEF dead
<1> HIDE DEF killed
<1>4. \A id \in RequestIdentifier :
        /\ KillRequest(id) \in Event
        /\ KillRequest(id).event = "KillRequest"
        /\ KillRequest(id).id = id
  BY DEF KillRequest, Event
<1>5. \A j : KillRequest(j)' = KillRequest(j)
  BY DEF KillRequest
<1>6. TypeOK'
  <2>1. events' \subseteq Event
    BY <1>1, <1>2, <1>4 DEF IInv, TypeOK
  <2>2. Requests' \in [RequestIdentifier -> Request \cup {None}]
    BY <1>1 DEF IInv, TypeOK
  <2>3. block_number' \in Nat
    BY <1>1 DEF IInv, TypeOK
  <2> QED
    BY <1>1, <2>1, <2>2, <2>3 DEF IInv, TypeOK
<1>7. \A j \in RequestIdentifier :
        KillRequest(j)' \in events' <=> j \in killed \/ KillRequest(j) \in events
  BY <1>1, <1>2, <1>4, <1>5
<1>8. ASSUME NEW j \in RequestIdentifier PROVE RequestInv(j)'
  <2>1. RequestInv(j)
    BY IInvSplit
  <2>2. Requests'[j] = IF j \in killed THEN None ELSE Requests[j]
    BY <1>1
  <2>3. CASE j \in killed
    <3>1. ~(j >= NextRequestIdentifier)
      BY <1>2, <2>1, <2>3 DEF RequestInv
    <3> QED
      BY <1>1, <2>2, <2>3, <3>1 DEF RequestInv
  <2>4. CASE j \notin killed
    BY <1>1, <1>3, <1>7, <2>1, <2>2, <2>4 DEF RequestInv
  <2> QED
    BY <2>3, <2>4
<1>9. ASSUME NEW d \in events', d.event = "OracleRequest"
      PROVE  Requests'[d.id] # None \/ KillRequest(d.id)' \in events'
  <2>1. d \in events
    BY <1>1, <1>2, <1>4, <1>9
  <2>2. d.id \in RequestIdentifier
    BY <1>9, <2>1 DEF IInv, TypeOK, Event
  <2>3. Requests[d.id] # None \/ KillRequest(d.id) \in events
    BY <1>9, <2>1 DEF IInv
  <2> QED
    BY <1>1, <1>7, <2>2, <2>3
<1> QED
  BY <1>1, <1>6, <1>8, <1>9 DEF IInv, RequestInv

-----------------------------------------------------------------------------
\* The inductive invariant holds in every reachable state.
THEOREM InductiveInvariant == Spec => []IInv
<1>1. IInv /\ [Next]_vars => IInv'
  <2> SUFFICES ASSUME IInv, [Next]_vars PROVE IInv'
    OBVIOUS
  <2>1. CASE Next
    BY <2>1, RegisterStep, InitiateStep, CallbackStep, FinalizeStep DEF Next
  <2>2. CASE UNCHANGED vars
    BY <2>2 DEF vars, IInv, TypeOK, KillRequest
  <2> QED
    BY <2>1, <2>2
<1> QED
  BY InitIInv, <1>1, PTL DEF Spec

\* Every storage item and event holds a value of its Rust type.
THEOREM TypeCorrectness == Spec => []TypeOK
<1>1. IInv => TypeOK
  BY DEF IInv
<1> QED
  BY <1>1, InductiveInvariant, PTL

\* A request that is gone was killed, and no request outlives the block after
\* its validity period.
THEOREM RequestsExpire == Spec => []ExpiredRequestsAreKilled
<1>1. IInv => ExpiredRequestsAreKilled
  <2> SUFFICES ASSUME IInv, NEW e \in events, e.event = "OracleRequest"
               PROVE  /\ Requests[e.id] # None <=> KillRequest(e.id) \notin events
                      /\ Requests[e.id] # None =>
                           block_number <= Requests[e.id].at + ValidityPeriod + 1
    BY DEF ExpiredRequestsAreKilled
  <2>1. e.id \in RequestIdentifier
    BY DEF IInv, TypeOK, Event
  <2> QED
    BY <2>1 DEF IInv
<1> QED
  BY <1>1, InductiveInvariant, PTL

\* No later request, no answer and no early end of block changes or removes a
\* request within its validity period.
THEOREM RequestsStayStable == Spec => RequestsAreStable
<1>1. IInv /\ [Next]_vars => [\A id \in RequestIdentifier : KeptOrExpired(id)]_vars
  <2> SUFFICES ASSUME IInv, Next, NEW id \in RequestIdentifier, Requests[id] # None
               PROVE  \/ Requests'[id] = Requests[id]
                      \/ /\ Requests'[id] = None
                         /\ block_number > Requests[id].at + ValidityPeriod
    BY DEF KeptOrExpired
  <2>1. CASE \E who \in Accounts : register_operator(who) \/ unregister_operator(who)
    BY <2>1 DEF register_operator, unregister_operator
  <2>2. CASE \E who, operator \in Accounts, fee \in Fees, call \in Calls :
               initiate_request(who, operator, fee, call)
    <3>1. PICK request : Requests' = [Requests EXCEPT ![NextRequestIdentifier] = request]
      BY Zenon, <2>2 DEF initiate_request
    <3>2. id # NextRequestIdentifier
      BY DEF IInv, TypeOK, RequestIdentifier
    <3> QED
      BY <3>1, <3>2 DEF IInv, TypeOK
  <2>3. CASE \E who \in Accounts, j \in RequestIdentifier,
                result \in Results \cup {Malformed} : callback(who, j, result)
    BY <2>3 DEF callback
  <2>4. CASE on_finalize
    BY <2>4 DEF on_finalize, dead
  <2> QED
    BY <2>1, <2>2, <2>3, <2>4 DEF Next
<1> QED
  BY <1>1, InductiveInvariant, PTL DEF Spec, RequestsAreStable
=============================================================================
