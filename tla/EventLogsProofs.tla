--------------------------- MODULE EventLogsProofs ---------------------------
(***************************************************************************)
(* For every contract, chain, capacity and call: no log gets lost between  *)
(* the node and the user (NothingLost), and iterators and subscriptions    *)
(* implement LogStream.                                                    *)
(***************************************************************************)
EXTENDS EventLogs, SequenceTheorems, TLAPS

TypeInv ==
  /\ call \in Calls
  /\ chain \in Chains(call)
  /\ found \in Seq(Logs) /\ buff \in Seq(Logs) /\ logs \in Seq(Logs) /\ got \in Seq(Logs)
  /\ held \in Logs \cup {None}
  /\ pc \in {"start", "open", "ended"}
  /\ done \in BOOLEAN /\ quit \in BOOLEAN

\* Before Filter or Watch was called.
Unopened ==
  /\ fail = None /\ held = None /\ quit = FALSE /\ done = FALSE
  /\ found = <<>> /\ buff = <<>> /\ logs = <<>> /\ got = <<>>
  /\ sub = "closed"

\* What makes the end of an iteration the end of the logs: the producer of an
\* iterator that was not closed returns with nothing left.
Drained ==
  /\ call.method = "Filter" => held = None
  /\ call.method = "Filter" /\ pc = "open" /\ done => sub = "closed"
  /\ call.method = "Filter" /\ pc # "start" /\ sub = "closed" /\ ~ quit => buff = <<>>

\* The inductive invariant.
IInv ==
  /\ TypeInv
  /\ pc = "start" => Unopened
  /\ pc = "open" => fail = None /\ found = Wanted
  /\ Drained
  /\ NothingLost

-----------------------------------------------------------------------------
(* Sequences *)

\* Handing on the first element of t to the end of s.
LEMMA HandOn ==
  ASSUME NEW S, NEW s \in Seq(S), NEW t \in Seq(S), t # <<>>
  PROVE  /\ Append(s, Head(t)) \o Tail(t) = s \o t
         /\ Append(s, Head(t)) \in Seq(S)
         /\ Tail(t) \in Seq(S)
         /\ Head(t) \in S
  OBVIOUS

\* The element after s in s, h and the rest.
LEMMA NextElement ==
  ASSUME NEW S, NEW s \in Seq(S), NEW t \in Seq(S), t # <<>>
  PROVE  Len(s) < Len(s \o t) /\ (s \o t)[Len(s) + 1] = Head(t)
  OBVIOUS

\* The head of a concatenation is the head of its first part.
LEMMA HeadOfConcat ==
  ASSUME NEW S, NEW s \in Seq(S), NEW t \in Seq(S), s # <<>>
  PROVE  s \o t \in Seq(S) /\ s \o t # <<>> /\ Head(s \o t) = Head(s)
<1>1. Len(s) > 0 /\ Len(s \o t) = Len(s) + Len(t) /\ s \o t \in Seq(S)
  OBVIOUS
<1>2. s \o t # <<>>
  BY <1>1
<1>3. (s \o t)[1] = s[1]
  BY <1>1
<1> QED
  BY <1>1, <1>2, <1>3

\* A concatenation has the type of its parts.
LEMMA ConcatType ==
  ASSUME NEW S, NEW s \in Seq(S), NEW t \in Seq(S)
  PROVE  s \o t \in Seq(S)
  OBVIOUS

\* The empty sequence is neutral.
LEMMA ConcatEmpty ==
  ASSUME NEW S, NEW s \in Seq(S)
  PROVE  s \o <<>> = s /\ <<>> \o s = s
  OBVIOUS

\* Appending is concatenating a sequence of one element.
LEMMA AppendOne ==
  ASSUME NEW S, NEW s \in Seq(S), NEW h \in S
  PROVE  s \o <<h>> = Append(s, h) /\ Append(s, h) \in Seq(S)
  OBVIOUS

-----------------------------------------------------------------------------
(* Taking a log *)

\* TakeLog keeps what NothingLost says, and takes the log that is due.
LEMMA TakeKeeps ==
  ASSUME TypeInv, held = None, logs # <<>>,
         got \o <<>> \o logs \o buff = found
  PROVE  /\ Append(got, Head(logs)) \o <<>> \o Tail(logs) \o buff = found
         /\ Append(got, Head(logs)) \in Seq(Logs)
         /\ Tail(logs) \in Seq(Logs)
         /\ Len(got) < Len(found)
         /\ found[Len(got) + 1] = Head(logs)
<1>1. /\ got \in Seq(Logs) /\ logs \in Seq(Logs) /\ buff \in Seq(Logs)
  BY DEF TypeInv
<1>2. /\ Append(got, Head(logs)) \o Tail(logs) = got \o logs
      /\ Append(got, Head(logs)) \in Seq(Logs)
      /\ Tail(logs) \in Seq(Logs)
  BY <1>1, HandOn
<1>3. got \o <<>> = got /\ Append(got, Head(logs)) \o <<>> = Append(got, Head(logs))
  BY <1>1, <1>2, ConcatEmpty
<1>4. Append(got, Head(logs)) \o <<>> \o Tail(logs) \o buff = found
  BY <1>2, <1>3
<1>5. found = got \o (logs \o buff)
  <2>1. (got \o logs) \o buff = got \o (logs \o buff)
    BY <1>1, SMT
  <2>2. (got \o logs) \o buff = found
    BY <1>3, Zenon
  <2> QED
    BY <2>1, <2>2, Zenon
<1>6. logs \o buff \in Seq(Logs) /\ logs \o buff # <<>> /\ Head(logs \o buff) = Head(logs)
  BY <1>1, HeadOfConcat
<1>7. Len(got) < Len(found) /\ found[Len(got) + 1] = Head(logs)
  BY <1>1, <1>5, <1>6, NextElement
<1> QED
  BY <1>2, <1>4, <1>7

\* Produce keeps it.
LEMMA ProduceKeeps ==
  ASSUME NEW x \in Seq(Logs), TypeInv, buff # <<>>
  PROVE  x \o Append(logs, Head(buff)) \o Tail(buff) = x \o logs \o buff
<1>1. logs \in Seq(Logs) /\ buff \in Seq(Logs)
  BY DEF TypeInv
<1>2. /\ Append(logs, Head(buff)) \o Tail(buff) = logs \o buff
      /\ Append(logs, Head(buff)) \in Seq(Logs) /\ Tail(buff) \in Seq(Logs)
  BY <1>1, HandOn
<1>3. x \o logs \o buff = x \o (logs \o buff)
  BY <1>1, SMT
<1>4. x \o Append(logs, Head(buff)) \o Tail(buff)
        = x \o (Append(logs, Head(buff)) \o Tail(buff))
  <2> DEFINE a == Append(logs, Head(buff))
             b == Tail(buff)
  <2>1. a \in Seq(Logs) /\ b \in Seq(Logs)
    BY <1>2
  <2> HIDE DEF a, b
  <2>2. x \o a \o b = x \o (a \o b)
    BY <2>1, SMT
  <2> QED
    BY Zenon, <2>2 DEF a, b
<1> QED
  BY <1>2, <1>3, <1>4, Zenon

\* An event moves from the channel to the goroutine of Watch.
LEMMA ReceiveKeeps ==
  ASSUME TypeInv, logs # <<>>
  PROVE  got \o <<Head(logs)>> \o Tail(logs) \o buff = got \o <<>> \o logs \o buff
<1>1. got \in Seq(Logs) /\ logs \in Seq(Logs)
  BY DEF TypeInv
<1>2. Head(logs) \in Logs /\ Append(got, Head(logs)) \o Tail(logs) = got \o logs
  BY <1>1, HandOn
<1>3. got \o <<Head(logs)>> = Append(got, Head(logs))
  BY <1>1, <1>2, AppendOne
<1>4. got \o <<>> = got
  BY <1>1, ConcatEmpty
<1> QED
  BY <1>2, <1>3, <1>4, Zenon

\* The event that waits for the sink is the one that is due.
LEMMA ForwardKeeps ==
  ASSUME TypeInv, held # None,
         got \o <<held>> \o logs \o buff = found
  PROVE  /\ Append(got, held) \o <<>> \o logs \o buff = found
         /\ Append(got, held) \in Seq(Logs)
         /\ Len(got) < Len(found)
         /\ found[Len(got) + 1] = held
<1>1. got \in Seq(Logs) /\ logs \in Seq(Logs) /\ buff \in Seq(Logs) /\ held \in Logs
  BY DEF TypeInv
<1>2. got \o <<held>> = Append(got, held) /\ Append(got, held) \in Seq(Logs)
  BY <1>1, AppendOne
<1>3. Append(got, held) \o <<>> = Append(got, held)
  BY <1>2, ConcatEmpty
<1>4. Append(got, held) \o <<>> \o logs \o buff = found
  BY <1>2, <1>3, Zenon
<1>5. (Append(got, held) \o logs) \o buff = found
  BY <1>2, Zenon
<1>6. /\ Len(got) < Len(Append(got, held))
      /\ Append(got, held)[Len(got) + 1] = held
  BY <1>1
<1> DEFINE a == Append(got, held)
<1>7. a \in Seq(Logs) /\ Len(got) \in Nat /\ Len(got) < Len(a) /\ a[Len(got) + 1] = held
  BY <1>1, <1>2, <1>6
<1> HIDE DEF a
<1>8. /\ Len((a \o logs) \o buff) = Len(a) + Len(logs) + Len(buff)
      /\ \A i \in 1 .. Len(a) : ((a \o logs) \o buff)[i] = a[i]
  BY <1>1, <1>7, SMT
<1>9. Len(got) < Len((a \o logs) \o buff) /\ ((a \o logs) \o buff)[Len(got) + 1] = held
  BY <1>1, <1>7, <1>8, SMT
<1> QED
  BY <1>2, <1>4, <1>5, <1>9 DEF a

-----------------------------------------------------------------------------
(* The invariant *)

LEMMA InitInv == Init => IInv
<1> SUFFICES ASSUME Init PROVE IInv
  OBVIOUS
<1>1. TypeInv /\ Unopened /\ pc = "start"
  <2>1. call \in Calls /\ chain \in Chains(call)
    BY Zenon DEF Init
  <2>2. <<>> \in Seq(Logs)
    OBVIOUS
  <2>3. Unopened /\ pc = "start"
    BY Zenon DEF Init, Unopened
  <2> QED
    BY <2>1, <2>2, <2>3, Zenon DEF TypeInv, Unopened
<1>2. Drained
  BY <1>1 DEF Drained, Unopened
<1>3. NothingLost
  <2>1. Held = <<>>
    BY <1>1 DEF Unopened, Held
  <2>2. <<>> \o <<>> = <<>>
    OBVIOUS
  <2> QED
    BY <1>1, <2>1, <2>2 DEF Unopened, NothingLost
<1> QED
  BY <1>1, <1>2, <1>3 DEF IInv

\* The query of the binding is the one the user asked for.
LEMMA FoundIsWanted ==
  ASSUME TypeInv
  PROVE  /\ Select(chain, Query(call.event, call.want)) = Wanted
         /\ Select(chain, Query(call.event, call.want)) \in Seq(Logs)
<1>1. call.event = Event(call.event.name, Declared[call.event.name])
  BY EventAssumption DEF TypeInv
<1>2. Select(chain, Query(call.event, call.want)) \in Seq(Logs)
  BY EventAssumption DEF TypeInv
<1>3. Select(chain, Query(call.event, call.want)) =
        Select(chain, Query(Event(call.event.name, Declared[call.event.name]), call.want))
  BY <1>1, Zenon
<1> QED
  BY <1>2, <1>3, Zenon DEF Wanted

\* FilterX and WatchX preserve the invariant.
LEMMA OpenInv ==
  ASSUME IInv, NEW m \in {"Filter", "Watch"}, Open(m)
  PROVE  IInv'
<1>1. TypeInv /\ Unopened
  BY DEF IInv, Open
<1>2. found' = Wanted /\ found' \in Seq(Logs) /\ buff' = found'
  BY <1>1, FoundIsWanted DEF Open
<1>3. TypeInv'
  BY <1>1, <1>2 DEF Open, TypeInv
<1>4. fail' = None /\ found' = Wanted' /\ pc' = "open"
  BY <1>1, <1>2 DEF Open, Unopened, Wanted
<1>5. Drained'
  BY <1>1 DEF Open, Unopened, Drained
<1>6. NothingLost'
  <2>1. got' = <<>> /\ Held' = <<>> /\ logs' = <<>>
    BY <1>1 DEF Open, Unopened, Held
  <2>2. <<>> \o <<>> = <<>> /\ <<>> \o found' = found'
    BY <1>2
  <2> QED
    BY <1>2, <2>1, <2>2 DEF NothingLost
<1> QED
  BY <1>3, <1>4, <1>5, <1>6 DEF IInv

\* So does a FilterX or WatchX that fails,
LEMMA OpenFailsInv ==
  ASSUME IInv, OpenFails
  PROVE  IInv'
<1>1. TypeInv'
  BY DEF IInv, TypeInv, OpenFails
<1>2. fail' # None /\ pc' = "ended"
  BY EventAssumption DEF OpenFails
<1>3. Drained'
  BY DEF IInv, Unopened, Drained, OpenFails
<1> QED
  BY <1>1, <1>2, <1>3 DEF IInv, NothingLost

\* the producer that puts a log in the channel,
LEMMA ProduceInv ==
  ASSUME IInv, Produce
  PROVE  IInv'
<1>1. TypeInv /\ pc # "start" /\ buff # <<>>
  BY DEF IInv, Unopened, Produce
<1>2. TypeInv'
  <2>1. logs' \in Seq(Logs) /\ buff' \in Seq(Logs)
    BY <1>1, HandOn DEF TypeInv, Produce
  <2> QED
    BY <1>1, <2>1 DEF TypeInv, Produce
<1>3. pc' = "open" => fail' = None /\ found' = Wanted'
  BY DEF IInv, Produce, Wanted
<1>4. Drained'
  BY DEF IInv, Drained, Produce
<1>5. NothingLost'
  <2>1. got \in Seq(Logs) /\ Held \in Seq(Logs)
    BY <1>1 DEF TypeInv, Held
  <2>2. got \o Held \in Seq(Logs)
    BY <2>1, ConcatType
  <2>3. got \o Held \o logs' \o buff' = got \o Held \o logs \o buff
    BY Zenon, <1>1, <2>2, ProduceKeeps DEF Produce
  <2>4. Held' = Held /\ UNCHANGED <<got, found, fail>>
    BY DEF Produce, Held
  <2> QED
    BY Zenon, <2>3, <2>4 DEF IInv, NothingLost
<1> QED
  BY <1>1, <1>2, <1>3, <1>4, <1>5 DEF IInv, Produce

\* The steps of the environment, and of the user, that hand on no log.
Quiet ==
  /\ UNCHANGED <<call, chain, found, buff, logs, fail, held, got>>
  /\ pc # "start"
  /\ \/ pc' = pc
     \/ pc = "open" /\ pc' = "ended"
  /\ done' \in BOOLEAN /\ quit' \in BOOLEAN
  /\ call.method = "Filter" /\ pc' = "open" /\ done' => sub' = "closed"
  /\ call.method = "Filter" /\ sub' = "closed" /\ ~ quit' => buff = <<>>

\* a step that changes only what the invariant does not tell apart,
LEMMA QuietInv ==
  ASSUME IInv, Quiet
  PROVE  IInv'
<1> USE DEF Quiet
<1>1. TypeInv'
  BY DEF IInv, TypeInv
<1>2. pc' # "start" /\ (pc' = "open" => fail' = None /\ found' = Wanted')
  BY DEF IInv, Wanted, TypeInv
<1>3. Drained'
  BY DEF IInv, Drained
<1>4. NothingLost'
  BY DEF IInv, NothingLost, Held
<1> QED
  BY <1>1, <1>2, <1>3, <1>4 DEF IInv

\* the return of FilterLogs' goroutine,
LEMMA ProducerReturnsInv ==
  ASSUME IInv, ProducerReturns
  PROVE  IInv'
<1>1. pc # "start" /\ TypeInv /\ Drained
  BY DEF IInv, Unopened, ProducerReturns
<1>2. Quiet
  BY <1>1 DEF Quiet, TypeInv, Drained, ProducerReturns
<1> QED
  BY <1>2, QuietInv

\* the failure of a subscription,
LEMMA SubscriptionFailsInv ==
  ASSUME IInv, SubscriptionFails
  PROVE  IInv'
<1>1. pc # "start" /\ TypeInv /\ Drained
  BY DEF IInv, Unopened, SubscriptionFails
<1>2. Quiet
  BY <1>1 DEF Quiet, TypeInv, Drained, SubscriptionFails
<1> QED
  BY <1>2, QuietInv

\* Close,
LEMMA CloseInv ==
  ASSUME IInv, Close
  PROVE  IInv'
<1>1. pc # "start" /\ TypeInv /\ Drained
  BY DEF IInv, Unopened, Close
<1>2. Quiet
  BY <1>1 DEF Quiet, TypeInv, Drained, Close
<1> QED
  BY <1>2, QuietInv

\* Unsubscribe,
LEMMA UnsubscribeInv ==
  ASSUME IInv, Unsubscribe
  PROVE  IInv'
<1>1. pc # "start" /\ TypeInv /\ Drained
  BY DEF IInv, Unopened, Unsubscribe
<1>2. Quiet
  BY <1>1 DEF Quiet, TypeInv, Drained, Unsubscribe
<1> QED
  BY <1>2, QuietInv

\* the end of Watch's goroutine on quit,
LEMMA WatchQuitInv ==
  ASSUME IInv, WatchQuit
  PROVE  IInv'
<1>1. pc # "start" /\ TypeInv /\ Drained
  BY DEF IInv, Unopened, WatchQuit
<1>2. Quiet
  BY <1>1 DEF Quiet, TypeInv, Drained, WatchQuit
<1> QED
  BY <1>2, QuietInv

\* An error ends the iteration or the subscription.
LEMMA FailInv ==
  ASSUME IInv, pc = "open", pc' = "ended", fail' = "error",
         UNCHANGED <<call, chain, found, buff, sub, held, quit, got>>,
         logs' \in Seq(Logs), done' \in BOOLEAN
  PROVE  IInv'
<1>1. TypeInv'
  BY DEF IInv, TypeInv
<1>2. fail' # None
  BY EventAssumption
<1>3. Drained'
  BY DEF IInv, Drained
<1> QED
  BY <1>1, <1>2, <1>3 DEF IInv, NothingLost

\* and on the subscription's error.
LEMMA WatchSubErrInv ==
  ASSUME IInv, WatchSubErr
  PROVE  IInv'
<1>1. logs' \in Seq(Logs) /\ done' \in BOOLEAN
  BY DEF IInv, TypeInv, WatchSubErr
<1> QED
  BY <1>1, FailInv DEF WatchSubErr

\* An iterator that takes a log from the channel preserves the invariant;
LEMMA TakeLogInv ==
  ASSUME IInv, call.method = "Filter", pc = "open", TakeLog,
         done' \in BOOLEAN, done' => sub = "closed",
         UNCHANGED <<call, chain, found, buff, sub, held, quit>>
  PROVE  IInv'
<1>1. TypeInv /\ held = None /\ fail = None /\ logs # <<>>
  BY DEF IInv, Drained, TakeLog
<1>2. logs' = Tail(logs) /\ logs' \in Seq(Logs)
  BY <1>1, HandOn DEF TakeLog, TypeInv
<1>3. CASE UnpackLog(Head(logs)) = None
  <2>1. got' = Append(got, Head(logs)) /\ UNCHANGED <<pc, fail>>
    BY <1>3 DEF TakeLog
  <2>2. got \o <<>> \o logs \o buff = found
    BY <1>1 DEF IInv, NothingLost, Held
  <2>3. got' \o <<>> \o logs' \o buff = found /\ got' \in Seq(Logs)
    BY SMTT(30), <1>1, <1>2, <2>1, <2>2, TakeKeeps
  <2>4. TypeInv'
    BY <1>1, <1>2, <2>1, <2>3 DEF TypeInv
  <2>5. fail' = None /\ found' = Wanted' /\ pc' = "open"
    BY <1>1, <2>1 DEF IInv, Wanted
  <2>6. Drained'
    BY <2>1 DEF IInv, Drained
  <2>7. NothingLost'
    BY <1>1, <2>3 DEF NothingLost, Held
  <2> QED
    BY <2>4, <2>5, <2>6, <2>7 DEF IInv
<1>4. CASE UnpackLog(Head(logs)) # None
  <2>1. fail' = "error" /\ pc' = "ended" /\ UNCHANGED got
    BY <1>4 DEF TakeLog, UnpackLog
  <2> QED
    BY <1>2, <2>1, FailInv
<1> QED
  BY <1>3, <1>4

\* hence so does Next, in each of its modes,
LEMMA IteratorNextInv ==
  ASSUME IInv, IteratorNext
  PROVE  IInv'
<1>1. TypeInv /\ Drained /\ call.method = "Filter" /\ pc = "open"
  BY DEF IInv, IteratorNext
<1>2. /\ UNCHANGED <<call, chain, found, buff, sub, held, quit>>
      /\ done' \in BOOLEAN
      /\ done' => sub = "closed"
  <2>1. \/ done' = done
        \/ done' = TRUE /\ sub = "closed"
    BY DEF IteratorNext
  <2>2. done \in BOOLEAN /\ (done => sub = "closed")
    BY <1>1 DEF TypeInv, Drained
  <2>3. UNCHANGED <<call, chain, found, buff, sub, held, quit>>
    BY DEF IteratorNext
  <2>4. CASE done' = done
    BY <2>2, <2>3, <2>4, Zenon
  <2>5. CASE done' = TRUE /\ sub = "closed"
    BY <2>3, <2>5, Zenon
  <2> QED
    BY <2>1, <2>4, <2>5, Zenon
<1>3. CASE TakeLog
  BY <1>1, <1>2, <1>3, TakeLogInv
<1>4. CASE ~ TakeLog
  <2>1. logs = <<>> /\ pc' = "ended" /\ UNCHANGED <<logs, got, fail>>
    BY <1>4 DEF IteratorNext, NextDone
  <2>2. Quiet
    BY <1>1, <1>2, <2>1 DEF Quiet, TypeInv, Drained
  <2> QED
    BY <2>2, QuietInv
<1> QED
  BY <1>3, <1>4

\* the receipt of a log by Watch's goroutine,
LEMMA WatchReceiveInv ==
  ASSUME IInv, WatchReceive
  PROVE  IInv'
<1>1. /\ TypeInv /\ fail = None /\ pc = "open" /\ held = None /\ logs # <<>>
      /\ call.method = "Watch" /\ logs' = Tail(logs)
      /\ UNCHANGED <<call, chain, found, buff, sub, done, quit, got>>
  BY DEF IInv, WatchReceive
<1>2. logs' \in Seq(Logs) /\ Head(logs) \in Logs
  BY <1>1, HandOn DEF TypeInv
<1>3. CASE UnpackLog(Head(logs)) = None
  <2>1. held' = Head(logs) /\ UNCHANGED <<pc, fail>>
    BY <1>3 DEF WatchReceive
  <2>2. Held = <<>> /\ Held' = <<Head(logs)>>
    BY <1>1, <1>2, <2>1, EventAssumption DEF Held
  <2>3. got \o <<Head(logs)>> \o Tail(logs) \o buff = got \o <<>> \o logs \o buff
    BY <1>1, ReceiveKeeps
  <2>4. NothingLost'
    BY <1>1, <2>1, <2>2, <2>3 DEF IInv, NothingLost
  <2>5. TypeInv'
    BY <1>1, <1>2, <2>1 DEF TypeInv
  <2>6. fail' = None /\ found' = Wanted' /\ pc' = "open"
    BY <1>1, <2>1 DEF IInv, Wanted
  <2>7. Drained'
    BY <1>1 DEF Drained
  <2> QED
    BY <2>4, <2>5, <2>6, <2>7 DEF IInv
<1>4. CASE UnpackLog(Head(logs)) # None
  <2>1. fail' = "error" /\ pc' = "ended" /\ UNCHANGED held
    BY <1>4 DEF WatchReceive, UnpackLog
  <2>2. done' \in BOOLEAN
    BY <1>1 DEF TypeInv
  <2> QED
    BY <1>1, <1>2, <2>1, <2>2, FailInv
<1> QED
  BY <1>3, <1>4

\* The log WatchForward hands to the user is the one that is due.
LEMMA ForwardedIsDue ==
  ASSUME IInv, WatchForward
  PROVE  /\ got' \o <<>> \o logs \o buff = found
         /\ got' \in Seq(Logs)
         /\ Len(got) < Len(found)
         /\ got' = Append(got, found[Len(got) + 1])
<1>1. TypeInv /\ held # None /\ fail = None /\ got' = Append(got, held)
  BY DEF IInv, WatchForward
<1>2. got \o <<held>> \o logs \o buff = found
  BY <1>1 DEF IInv, NothingLost, Held
<1> QED
  BY <1>1, <1>2, ForwardKeeps

\* and its delivery to the sink.
LEMMA WatchForwardInv ==
  ASSUME IInv, WatchForward
  PROVE  IInv'
<1>1. got' \o <<>> \o logs \o buff = found /\ got' \in Seq(Logs)
  BY ForwardedIsDue
<1>2. TypeInv'
  BY <1>1 DEF IInv, TypeInv, WatchForward
<1>3. fail' = None /\ found' = Wanted' /\ pc' = "open"
  BY DEF IInv, Wanted, WatchForward
<1>4. Drained'
  BY DEF IInv, Drained, WatchForward
<1>5. NothingLost'
  BY <1>1 DEF WatchForward, NothingLost, Held
<1> QED
  BY <1>2, <1>3, <1>4, <1>5 DEF IInv

\* A stuttering step.
LEMMA StutterInv ==
  ASSUME IInv, UNCHANGED vars
  PROVE  IInv'
  BY DEF IInv, vars, TypeInv, Unopened, Drained, NothingLost, Held, Wanted

\* The invariant is inductive: one case for each action of Next.
LEMMA NextInv == IInv /\ [Next]_vars => IInv'
<1> SUFFICES ASSUME IInv, [Next]_vars PROVE IInv'
  OBVIOUS
<1>1. CASE Filter
  BY <1>1, OpenInv DEF Filter
<1>2. CASE Watch
  BY <1>2, OpenInv DEF Watch
<1>3. CASE OpenFails
  BY <1>3, OpenFailsInv
<1>4. CASE Produce
  BY <1>4, ProduceInv
<1>5. CASE ProducerReturns
  BY <1>5, ProducerReturnsInv
<1>6. CASE SubscriptionFails
  BY <1>6, SubscriptionFailsInv
<1>7. CASE IteratorNext
  BY <1>7, IteratorNextInv
<1>8. CASE Close
  BY <1>8, CloseInv
<1>9. CASE WatchReceive
  BY <1>9, WatchReceiveInv
<1>10. CASE WatchSubErr
  BY <1>10, WatchSubErrInv
<1>11. CASE WatchQuit
  BY <1>11, WatchQuitInv
<1>12. CASE WatchForward
  BY <1>12, WatchForwardInv
<1>13. CASE Unsubscribe
  BY <1>13, UnsubscribeInv
<1>14. CASE UNCHANGED vars
  BY <1>14, StutterInv
<1> QED
  BY <1>1, <1>2, <1>3, <1>4, <1>5, <1>6, <1>7, <1>8, <1>9, <1>10, <1>11, <1>12, <1>13,
     <1>14 DEF Next, Goroutine

\* The inductive invariant of Filter, Watch and the iterator holds in every
\* state, for every event, chain and capacity.
THEOREM EventInvariance == Spec => []IInv
  BY InitInv, NextInv, PTL DEF Spec

\* No log gets lost, doubled or out of order between the node and the user, for
\* every event and chain and whatever the capacity of the channel.
THEOREM NothingIsLost == Spec => []NothingLost
<1>1. IInv => NothingLost
  BY DEF IInv
<1> QED
  BY <1>1, EventInvariance, PTL

-----------------------------------------------------------------------------
(* The refinement of LogStream *)

LEMMA StreamInit == Init => Stream!Init
  BY DEF Init, Stream!Init, Status

\* A step keeps the logs that were asked for.
LEMMA WantedFixed == [Next]_vars => Wanted' = Wanted
<1> SUFFICES ASSUME [Next]_vars PROVE UNCHANGED <<call, chain>>
  BY DEF Wanted
<1> QED
  BY DEF Next, Goroutine, vars, Filter, Watch, Open, OpenFails, Produce, ProducerReturns,
         SubscriptionFails, IteratorNext, Close, WatchReceive, WatchSubErr, WatchQuit,
         WatchForward, Unsubscribe

\* A step that leaves what the user got and the status alone is a stutter.
LEMMA QuietStream ==
  ASSUME [Next]_vars, UNCHANGED <<got, fail, quit, pc>>
  PROVE  [Stream!Next]_Stream!streamVars
<1>1. Status' = Status
  BY DEF Status
<1> QED
  BY <1>1, WantedFixed DEF Stream!streamVars

\* An open stream fails.
LEMMA FailStream ==
  ASSUME IInv, [Next]_vars, fail = None, pc \in {"start", "open"}, fail' = "error",
         UNCHANGED got
  PROVE  [Stream!Next]_Stream!streamVars
<1>1. Status' = "failed" /\ Status \in {"open", "cancelled"}
  BY EventAssumption DEF Status
<1> QED
  BY <1>1, WantedFixed DEF Stream!streamVars, Stream!Next, Stream!Fail

\* A log is delivered.
LEMMA DeliverStream ==
  ASSUME [Next]_vars, fail = None, pc = "open", UNCHANGED <<fail, quit, pc>>,
         Len(got) < Len(Wanted), got' = Append(got, Wanted[Len(got) + 1])
  PROVE  [Stream!Next]_Stream!streamVars
<1>1. Status' = Status /\ Status \in {"open", "cancelled"}
  BY DEF Status
<1> QED
  BY <1>1, WantedFixed DEF Stream!Next, Stream!Deliver

\* Close or Unsubscribe cancels an open stream.
LEMMA CancelStream ==
  ASSUME [Next]_vars, fail = None, pc = "open", ~ quit, quit' = TRUE,
         UNCHANGED <<fail, pc, got>>
  PROVE  [Stream!Next]_Stream!streamVars
<1>1. Status = "open" /\ Status' = "cancelled"
  BY DEF Status
<1> QED
  BY <1>1, WantedFixed DEF Stream!Next, Stream!Cancel

\* An iterator or a subscription ends without an error: either the user has
\* cancelled it, or every log has come.
LEMMA EndStream ==
  ASSUME [Next]_vars, fail = None, pc = "open", pc' = "ended", UNCHANGED <<fail, quit, got>>,
         quit \in BOOLEAN, quit \/ got = Wanted
  PROVE  [Stream!Next]_Stream!streamVars
<1>1. CASE quit
  <2>1. Status' = Status
    BY <1>1 DEF Status
  <2> QED
    BY <2>1, WantedFixed DEF Stream!streamVars
<1>2. CASE ~ quit
  <2>1. Status = "open" /\ Status' = "complete" /\ got = Wanted
    BY <1>2 DEF Status
  <2> QED
    BY <2>1, WantedFixed DEF Stream!Next, Stream!Complete
<1> QED
  BY <1>1, <1>2

\* Next of an iterator delivers the log that is due, fails, or ends the stream.
LEMMA IteratorStream ==
  ASSUME IInv, IteratorNext
  PROVE  [Stream!Next]_Stream!streamVars
<1>1. /\ TypeInv /\ Drained /\ call.method = "Filter" /\ pc = "open" /\ fail = None
      /\ found = Wanted /\ held = None /\ UNCHANGED quit
  BY DEF IInv, IteratorNext, Drained
<1>2. [Next]_vars
  BY DEF Next
<1>3. got \o <<>> \o logs \o buff = Wanted
  BY <1>1 DEF IInv, NothingLost, Held
<1>4. CASE TakeLog
  <2>1. CASE UnpackLog(Head(logs)) = None
    <3>1. got' = Append(got, Head(logs)) /\ UNCHANGED <<pc, fail>> /\ logs # <<>>
      BY <1>4, <2>1 DEF TakeLog
    <3>2. Len(got) < Len(Wanted) /\ Wanted[Len(got) + 1] = Head(logs)
      BY <1>1, <1>3, <3>1, TakeKeeps
    <3> QED
      BY <1>1, <1>2, <3>1, <3>2, DeliverStream
  <2>2. CASE UnpackLog(Head(logs)) # None
    <3>1. fail' = "error" /\ UNCHANGED got
      BY <1>4, <2>2 DEF TakeLog, UnpackLog
    <3> QED
      BY <1>1, <1>2, <3>1, FailStream
  <2> QED
    BY <2>1, <2>2
<1>5. CASE ~ TakeLog
  <2>1. logs = <<>> /\ pc' = "ended" /\ UNCHANGED <<got, fail>> /\ (done \/ sub = "closed")
    BY <1>5 DEF IteratorNext, NextDone
  <2>2. sub = "closed"
    BY <1>1, <2>1 DEF Drained
  <2>3. quit \/ buff = <<>>
    BY <1>1, <2>2 DEF Drained
  <2>4. buff = <<>> => got = Wanted
    BY <1>1, <1>3, <2>1, ConcatEmpty DEF TypeInv
  <2> QED
    BY <1>1, <1>2, <2>1, <2>3, <2>4, EndStream DEF TypeInv
<1> QED
  BY <1>4, <1>5

\* Every step of the binding is a step of the stream or a stutter.
LEMMA StreamNext == IInv /\ [Next]_vars => [Stream!Next]_Stream!streamVars
<1> SUFFICES ASSUME IInv, [Next]_vars PROVE [Stream!Next]_Stream!streamVars
  OBVIOUS
<1>1. CASE Filter \/ Watch
  <2>1. UNCHANGED <<got, fail, quit>> /\ fail = None /\ ~ quit /\ pc' # "ended" /\ pc # "ended"
    BY <1>1 DEF IInv, Unopened, Filter, Watch, Open
  <2>2. Status' = Status
    BY <2>1 DEF Status
  <2> QED
    BY <2>1, <2>2, WantedFixed DEF Stream!streamVars
<1>2. CASE OpenFails
  <2>1. fail = None /\ pc = "start" /\ fail' = "error" /\ UNCHANGED got
    BY <1>2 DEF IInv, Unopened, OpenFails
  <2> QED
    BY <2>1, FailStream
<1>3. CASE Produce \/ ProducerReturns \/ SubscriptionFails
  BY <1>3, QuietStream DEF Produce, ProducerReturns, SubscriptionFails
<1>4. CASE IteratorNext
  BY <1>4, IteratorStream
<1>5. CASE Close \/ Unsubscribe
  <2>1. fail = None /\ pc = "open" /\ ~ quit /\ quit' = TRUE /\ UNCHANGED <<fail, pc, got>>
    BY <1>5 DEF IInv, Close, Unsubscribe
  <2> QED
    BY <2>1, CancelStream
<1>6. CASE WatchReceive
  <2>1. fail = None /\ pc = "open" /\ UNCHANGED <<got, quit>>
    BY <1>6 DEF IInv, WatchReceive
  <2>2. UNCHANGED <<pc, fail>> \/ fail' = "error"
    BY <1>6 DEF WatchReceive, UnpackLog
  <2> QED
    BY <2>1, <2>2, QuietStream, FailStream
<1>7. CASE WatchSubErr
  <2>1. fail = None /\ pc = "open" /\ fail' = "error" /\ UNCHANGED got
    BY <1>7 DEF IInv, WatchSubErr
  <2> QED
    BY <2>1, FailStream
<1>8. CASE WatchQuit
  <2>1. /\ fail = None /\ pc = "open" /\ pc' = "ended" /\ UNCHANGED <<fail, quit, got>>
        /\ quit /\ quit \in BOOLEAN
    BY <1>8 DEF IInv, TypeInv, WatchQuit
  <2> QED
    BY <2>1, EndStream
<1>9. CASE WatchForward
  <2>1. fail = None /\ pc = "open" /\ found = Wanted /\ UNCHANGED <<fail, quit, pc>>
    BY <1>9 DEF IInv, WatchForward
  <2>2. Len(got) < Len(found) /\ got' = Append(got, found[Len(got) + 1])
    BY <1>9, ForwardedIsDue
  <2> QED
    BY <2>1, <2>2, DeliverStream
<1>10. CASE UNCHANGED vars
  BY <1>10, QuietStream DEF vars
<1> QED
  BY <1>1, <1>2, <1>3, <1>4, <1>5, <1>6, <1>7, <1>8, <1>9, <1>10 DEF Next, Goroutine

\* Iterators and subscriptions implement the stream of the logs that were asked
\* for, for every event, chain, capacity and order of the goroutines' steps.
THEOREM Refinement == Spec => ImplementsStream
<1>1. IInv /\ [Next]_vars => [Stream!Next]_Stream!streamVars
  BY StreamNext
<1> QED
  BY <1>1, StreamInit, EventInvariance, PTL DEF Spec, ImplementsStream, Stream!Spec
=============================================================================
