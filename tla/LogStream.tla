------------------------------ MODULE LogStream ------------------------------
(***************************************************************************)
(* What an event binding promises to its user, whether the events are read *)
(* through an iterator (Filter...) or a subscription (Watch...): the logs  *)
(* of `source' come in order, none left out and none twice; the stream is  *)
(* complete only when all have come, and otherwise ends because of a       *)
(* failure or because the user cancelled it.                               *)
(***************************************************************************)
EXTENDS Naturals, Sequences

VARIABLES
  source,   \* the logs the user asked for, as the chain has them
  out,      \* the logs the user got
  status    \* "open", "cancelled", "complete", "failed"

streamVars == <<source, out, status>>

Init ==
  /\ out = <<>>
  /\ status = "open"

Deliver ==
  /\ status \in {"open", "cancelled"}
  /\ Len(out) < Len(source)
  /\ out' = Append(out, source[Len(out) + 1])
  /\ UNCHANGED <<source, status>>

Cancel ==
  /\ status = "open"
  /\ status' = "cancelled"
  /\ UNCHANGED <<source, out>>

Complete ==
  /\ status = "open"
  /\ out = source
  /\ status' = "complete"
  /\ UNCHANGED <<source, out>>

Fail ==
  /\ status \in {"open", "cancelled"}
  /\ status' = "failed"
  /\ UNCHANGED <<source, out>>

Next == Deliver \/ Cancel \/ Complete \/ Fail

Spec == Init /\ [][Next]_streamVars
=============================================================================
