------------------------------ MODULE EventLogs ------------------------------
(***************************************************************************)
(* The event half of the contract bindings.  abigen emits the same five    *)
(* functions for every event (iterator Next, Error and Close; Filter,      *)
(* Watch and Parse), which differ in the event's name and its indexed      *)
(* arguments; they are modelled once, for the event of `call'.             *)
(*                                                                         *)
(* External: bind.BoundContract.  FilterLogs fetches the logs, and a       *)
(* goroutine puts them in the channel `logs' and then closes Err; WatchLogs*)
(* subscribes to them, and the subscription may fail at any time.          *)
(***************************************************************************)
EXTENDS Naturals, Sequences

CONSTANTS
  Capacity,   \* of the channel of logs: 128 in package bind
  Calls,      \* the calls a user makes: [method, event, want]
  Chains(_),  \* the sequences of logs the contract may have, for a call
  Declared,   \* event -> its indexed arguments, as the contract declares them
  None        \* nil

VARIABLES
  call,       \* the call of the user
  chain,      \* the logs of the contract, in the order of the chain
  found,      \* the ones the node found for the query of the binding
  buff,       \* the ones of these not yet in the channel
  logs,       \* the channel
  sub,        \* its producer: "running", "closed" (Err is closed), "failed"
  pc,         \* "start", "open", "ended" (false was returned, Err was sent)
  fail,       \* it.fail, the error of the subscription
  done,       \* it.done
  held,       \* the event Watch's goroutine wants to put in the sink
  quit,       \* Close or Unsubscribe was called
  got         \* the events the user received

vars == <<call, chain, found, buff, logs, sub, pc, fail, done, held, quit, got>>

-----------------------------------------------------------------------------
\* An event, by the names of its indexed arguments in the order in which the
\* binding hands their rules to FilterLogs and WatchLogs.
Event(name, rules) == [name |-> name, rules |-> rules]

\* Topic rules: the values an argument may take, any if there are none.
Allows(rule, value) == rule = {} \/ value \in rule

\* The query: topic 0 is the event, topic i the i-th rule.
Query(event, want) == [event |-> event.name,
                       topics |-> [i \in DOMAIN event.rules |-> want[event.rules[i]]]]

Matches(log, query) ==
  /\ log.event = query.event
  /\ \A i \in DOMAIN query.topics : Allows(query.topics[i], log.topics[i])

\* The logs among s that match, in their order.
Select(s, query) == SelectSeq(s, LAMBDA log : Matches(log, query))

\* UnpackLog fails on a log that does not have the layout of the event.
UnpackLog(log) == IF log.ok THEN None ELSE "error"

Logs == [id : Nat, event : STRING, topics : Seq(Nat), ok : BOOLEAN]

\* The binding of an event hands over the rules of the arguments the contract
\* declares as indexed, in their order.
ASSUME EventAssumption ==
  /\ Capacity \in Nat \ {0}
  /\ None \notin Logs /\ None # "error"
  /\ \A c \in Calls : c.event = Event(c.event.name, Declared[c.event.name])
  /\ \A c \in Calls : \A s \in Chains(c) :
       Select(s, Query(c.event, c.want)) \in Seq(Logs)

-----------------------------------------------------------------------------
(***************************************************************************)
(* FilterX and WatchX                                                      *)
(***************************************************************************)
Open(method) ==
  /\ pc = "start"
  /\ call.method = method
  /\ found' = Select(chain, Query(call.event, call.want))
  /\ buff' = found'
  /\ sub' = "running"
  /\ pc' = "open"
  /\ UNCHANGED <<call, chain, logs, fail, done, held, quit, got>>

Filter == Open("Filter")
Watch == Open("Watch")

\* FilterLogs or WatchLogs returns an error.
OpenFails ==
  /\ pc = "start"
  /\ pc' = "ended"
  /\ fail' = "error"
  /\ UNCHANGED <<call, chain, found, buff, logs, sub, done, held, quit, got>>

\* The producer puts a log in the channel.
Produce ==
  /\ sub = "running"
  /\ buff # <<>>
  /\ Len(logs) < Capacity
  /\ logs' = Append(logs, Head(buff))
  /\ buff' = Tail(buff)
  /\ UNCHANGED <<call, chain, found, sub, pc, fail, done, held, quit, got>>

\* FilterLogs' goroutine returns after the last log, which closes Err.
ProducerReturns ==
  /\ call.method = "Filter"
  /\ sub = "running"
  /\ buff = <<>>
  /\ sub' = "closed"
  /\ UNCHANGED <<call, chain, found, buff, logs, pc, fail, done, held, quit, got>>

\* A subscription of WatchLogs fails: the connection breaks, or its queue
\* overflows.
SubscriptionFails ==
  /\ call.method = "Watch"
  /\ sub = "running"
  /\ sub' = "failed"
  /\ UNCHANGED <<call, chain, found, buff, logs, pc, fail, done, held, quit, got>>

-----------------------------------------------------------------------------
(***************************************************************************)
(* The iterator.  A user calls Next until it returns false, and may Close  *)
(* at any time.                                                            *)
(***************************************************************************)
\* Next takes a log from the channel.
TakeLog ==
  LET log == Head(logs)
  IN /\ logs # <<>>
     /\ logs' = Tail(logs)
     /\ \/ /\ UnpackLog(log) = None
           /\ got' = Append(got, log)
           /\ UNCHANGED <<pc, fail>>
        \/ /\ UnpackLog(log) # None
           /\ fail' = UnpackLog(log)
           /\ pc' = "ended"
           /\ UNCHANGED got

\* Mutant: the iterator that completed does not look into the channel.
NextDone_undrained ==
  /\ pc' = "ended"
  /\ UNCHANGED <<logs, got, fail>>

\* Next of an iterator that completed.
NextDone ==
  \/ TakeLog
  \/ /\ logs = <<>>
     /\ pc' = "ended"
     /\ UNCHANGED <<logs, got, fail>>

\* Mutant: Next waits for logs only.
IteratorNext_logs ==
  /\ call.method = "Filter"
  /\ pc = "open"
  /\ TakeLog
  /\ UNCHANGED <<call, chain, found, buff, sub, done, held, quit>>

\* Next: while the producer runs, select waits for a log or for Err; when Err is
\* closed Next calls itself.
IteratorNext ==
  /\ call.method = "Filter"
  /\ pc = "open"
  /\ \/ done /\ NextDone /\ UNCHANGED done
     \/ ~ done /\ TakeLog /\ UNCHANGED done
     \/ ~ done /\ sub = "closed" /\ done' = TRUE /\ NextDone
  /\ UNCHANGED <<call, chain, found, buff, sub, held, quit>>

\* Close: Unsubscribe stops the producer and waits for it.
Close ==
  /\ call.method = "Filter"
  /\ pc = "open"
  /\ ~ quit
  /\ quit' = TRUE
  /\ sub' = "closed"
  /\ UNCHANGED <<call, chain, found, buff, logs, pc, fail, done, held, got>>

-----------------------------------------------------------------------------
(***************************************************************************)
(* The goroutine of WatchX, and the user at the other end of the sink.     *)
(***************************************************************************)
\* The outer select receives a log.
WatchReceive ==
  /\ call.method = "Watch"
  /\ pc = "open"
  /\ held = None
  /\ logs # <<>>
  /\ logs' = Tail(logs)
  /\ \/ /\ UnpackLog(Head(logs)) = None
        /\ held' = Head(logs)
        /\ UNCHANGED <<pc, fail>>
     \/ /\ UnpackLog(Head(logs)) # None
        /\ fail' = UnpackLog(Head(logs))
        /\ pc' = "ended"
        /\ UNCHANGED held
  /\ UNCHANGED <<call, chain, found, buff, sub, done, quit, got>>

\* sink <- event, received by the user.
WatchForward ==
  /\ pc = "open"
  /\ held # None
  /\ got' = Append(got, held)
  /\ held' = None
  /\ UNCHANGED <<call, chain, found, buff, logs, sub, pc, fail, done, quit>>

\* Either select receives the error of the subscription.
WatchSubErr ==
  /\ call.method = "Watch"
  /\ pc = "open"
  /\ sub = "failed"
  /\ fail' = "error"
  /\ pc' = "ended"
  /\ UNCHANGED <<call, chain, found, buff, logs, sub, done, held, quit, got>>

\* Mutant: quit is not looked at while an event waits for the sink.
WatchQuit_outer ==
  /\ call.method = "Watch"
  /\ pc = "open"
  /\ held = None
  /\ quit
  /\ pc' = "ended"
  /\ UNCHANGED <<call, chain, found, buff, logs, sub, fail, done, held, quit, got>>

\* Either select receives quit.
WatchQuit ==
  /\ call.method = "Watch"
  /\ pc = "open"
  /\ quit
  /\ pc' = "ended"
  /\ UNCHANGED <<call, chain, found, buff, logs, sub, fail, done, held, quit, got>>

\* The user calls Unsubscribe, which waits until the goroutine has returned.
Unsubscribe ==
  /\ call.method = "Watch"
  /\ pc = "open"
  /\ ~ quit
  /\ quit' = TRUE
  /\ UNCHANGED <<call, chain, found, buff, logs, sub, pc, fail, done, held, got>>

-----------------------------------------------------------------------------
Init ==
  /\ call \in Calls
  /\ chain \in Chains(call)
  /\ found = <<>> /\ buff = <<>> /\ logs = <<>>
  /\ sub = "closed"
  /\ pc = "start"
  /\ fail = None
  /\ done = FALSE
  /\ held = None
  /\ quit = FALSE
  /\ got = <<>>

Goroutine == WatchReceive \/ WatchSubErr \/ WatchQuit

Next ==
  \/ Filter \/ Watch \/ OpenFails
  \/ Produce \/ ProducerReturns \/ SubscriptionFails
  \/ IteratorNext \/ Close
  \/ Goroutine \/ WatchForward \/ Unsubscribe

(***************************************************************************)
(* The goroutines run; a user of an iterator goes on calling Next.  The    *)
(* user of a subscription may stop reading the sink.                       *)
(***************************************************************************)
Fairness ==
  /\ WF_vars(Produce \/ ProducerReturns)
  /\ WF_vars(IteratorNext)
  /\ WF_vars(Goroutine)

Spec == Init /\ [][Next]_vars /\ Fairness

-----------------------------------------------------------------------------
(* Properties *)

Held == IF held = None THEN <<>> ELSE <<held>>

\* Between the node and the user no log gets lost, doubled or out of order: what
\* the user got, what waits for the sink, what is in the channel and what the
\* producer still has are together what the node found (the goroutines of the
\* iterator and of Watch hand every log on).
NothingLost == fail = None => got \o Held \o logs \o buff = found

\* Reading an iterator ends: the loop `for it.Next()' terminates once the
\* producer has returned or the iterator was closed.
IterationEnds == pc = "open" /\ call.method = "Filter" ~> pc = "ended"

\* Unsubscribe returns, also when nobody reads the sink any more (both selects
\* of the goroutine of Watch listen to quit).
UnsubscribeReturns == quit /\ call.method = "Watch" ~> pc = "ended"

\* The logs the user asked for: the query by the arguments the contract declares.
Wanted ==
  Select(chain, Query(Event(call.event.name, Declared[call.event.name]), call.want))

Status == CASE fail # None -> "failed"
            [] fail = None /\ quit -> "cancelled"
            [] fail = None /\ ~ quit /\ pc = "ended" -> "complete"
            [] OTHER -> "open"

Stream == INSTANCE LogStream WITH source <- Wanted, out <- got, status <- Status

\* Iterators and subscriptions implement the stream of the logs the user asked
\* for: none is skipped or repeated, an iterator reports the end without an error
\* only after the last one, and a subscription never ends silently (Next, Filter
\* and Watch of every event).
ImplementsStream == Stream!Spec
=============================================================================
