------------------------------ MODULE MCEvents ------------------------------
(* Every event of the bindings, read both ways, with a rule on one of its    *)
(* indexed arguments (or none) and up to MaxLogs logs on the chain.          *)
EXTENDS Events

CONSTANT MaxLogs

AllEvents == FluxAggregatorEvents \cup OffchainAggregatorEvents \cup LinkTokenEvents

\* A rule {1} on the argument that is named, none on the others.
Want(event, arg) ==
  [a \in {event.rules[i] : i \in DOMAIN event.rules} |-> IF a = arg THEN {1} ELSE {}]

MCCalls ==
  UNION {{[method |-> m, event |-> e, want |-> Want(e, arg)] :
            arg \in {e.rules[i] : i \in DOMAIN e.rules} \cup {"none"}} :
         m \in {"Filter", "Watch"}, e \in AllEvents}

\* Logs of the event with 1 for the argument of the rule and 2 for the others, or
\* the other way round; one that cannot be unpacked; one of another event.
Log(c, id, kind) ==
  LET names == ABI[c.event.name]
      in == IF kind = "miss" THEN 2 ELSE 1
  IN [id |-> id,
      event |-> IF kind = "other" THEN "Other" ELSE c.event.name,
      topics |-> [i \in DOMAIN names |-> IF c.want[names[i]] = {} THEN 3 - in ELSE in],
      ok |-> kind # "bad"]

MCChains(c) ==
  UNION {{[id \in 1 .. n |-> Log(c, id, kinds[id])] :
            kinds \in [1 .. n -> {"hit", "miss", "bad", "other"}]} : n \in 0 .. MaxLogs}
=============================================================================
