------------------------------- MODULE MCNode -------------------------------
(***************************************************************************)
(* main beside a client that uses every method, and two clients that use   *)
(* bridges of the same name.                                               *)
(***************************************************************************)
EXTENDS ChainlinkNode

MCScenarios ==
  {[files |-> 2, kinds |-> [c |-> {"job", "spec", "bridge", "ocr", "p2p", "eth"}, d |-> {}]],
   [files |-> 0, kinds |-> [c |-> {"bridge"}, d |-> {"bridge"}]]}
=============================================================================
